---- MODULE Spec2Model ----
(***************************************************************************)
(* Chunky-Monkey chunking engine: sentence segmentation, the greedy chunk  *)
(* assembler with overlap and hard split, the chunk identity hash input    *)
(* and the ChunkyMonkey front end.  Text is a sequence of one-character    *)
(* strings; offsets are 0-based as in the Python source.                   *)
(***************************************************************************)
EXTENDS Integers, Sequences, FiniteSets, TLC

(***************************************************************************)
(* Characters and Python string primitives                                 *)
(***************************************************************************)

\* Python's None.
None == "None"

UpperLetters ==
  <<"A", "B", "C", "D", "E", "F", "G", "H", "I", "J", "K", "L", "M",
    "N", "O", "P", "Q", "R", "S", "T", "U", "V", "W", "X", "Y", "Z">>

LowerLetters ==
  <<"a", "b", "c", "d", "e", "f", "g", "h", "i", "j", "k", "l", "m",
    "n", "o", "p", "q", "r", "s", "t", "u", "v", "w", "x", "y", "z">>

Digits == <<"0", "1", "2", "3", "4", "5", "6", "7", "8", "9">>

\* The character U+0060 (a TLA+ string literal cannot hold it).
Backtick == "U+0060"

\* The printable ASCII characters, code points 32..126 in order.
Printable ==
  <<
    " ", "!", "\"", "#", "$", "%", "&", "'", "(", ")", "*", "+", ",", "-", ".", "/",
    "0", "1", "2", "3", "4", "5", "6", "7", "8", "9", ":", ";", "<", "=", ">", "?",
    "@", "A", "B", "C", "D", "E", "F", "G", "H", "I", "J", "K", "L", "M", "N", "O",
    "P", "Q", "R", "S", "T", "U", "V", "W", "X", "Y", "Z", "[", "\\", "]", "^", "_",
    Backtick, "a", "b", "c", "d", "e", "f", "g", "h", "i", "j", "k", "l", "m", "n", "o",
    "p", "q", "r", "s", "t", "u", "v", "w", "x", "y", "z", "{", "|", "}", "~"
  >>

Range(f) == {f[i] : i \in DOMAIN f}

UpperSet == Range(UpperLetters)
LowerSet == Range(LowerLetters)
DigitSet == Range(Digits)

IsUpper(c) == c \in UpperSet
IsLower(c) == c \in LowerSet
IsAlpha(c) == IsUpper(c) \/ IsLower(c)
IsDigit(c) == c \in DigitSet
\* str.isspace / regex \s, on the whitespace characters of the model.
IsSpace(c) == c \in {" ", "\n", "\t"}
\* regex \w
IsWordChar(c) == IsAlpha(c) \/ IsDigit(c) \/ c = "_"

\* str.lower on one character.
LowerChar(c) ==
  IF IsUpper(c) THEN LowerLetters[CHOOSE i \in 1..26 : UpperLetters[i] = c] ELSE c

Lower(s) == [i \in 1..Len(s) |-> LowerChar(s[i])]

\* ord() and chr() on the characters of the model.
Ord(c) ==
  IF c = "\n" THEN 10
  ELSE IF c = "\t" THEN 9
  ELSE 31 + (CHOOSE i \in 1..Len(Printable) : Printable[i] = c)

Chr(n) ==
  IF n = 10 THEN "\n"
  ELSE IF n = 9 THEN "\t"
  ELSE Printable[n - 31]

\* text[i] at a 0-based offset; "" outside the text (no character equals it).
At(s, i) == IF i >= 0 /\ i < Len(s) THEN s[i + 1] ELSE ""

\* Python slice s[a:b] for 0 <= a, b.
Slice(s, a, b) ==
  LET hi == IF b > Len(s) THEN Len(s) ELSE b
  IN  IF a >= hi THEN << >> ELSE SubSeq(s, a + 1, hi)

Min(a, b) == IF a < b THEN a ELSE b
Max(a, b) == IF a > b THEN a ELSE b

\* First offset >= i whose character is not whitespace (Len(s) if none).
RECURSIVE SkipSpace(_, _)
SkipSpace(s, i) ==
  IF i < Len(s) /\ IsSpace(s[i + 1]) THEN SkipSpace(s, i + 1) ELSE i

\* Last offset e <= j such that s[e-1] is not whitespace (i if none), for i <= j.
RECURSIVE SkipSpaceBack(_, _, _)
SkipSpaceBack(s, i, j) ==
  IF j > i /\ IsSpace(s[j]) THEN SkipSpaceBack(s, i, j - 1) ELSE j

\* str.strip()
Strip(s) ==
  LET a == SkipSpace(s, 0)
      b == SkipSpaceBack(s, a, Len(s))
  IN  Slice(s, a, b)

\* "not text or not text.strip()"
IsBlank(s) == Strip(s) = << >>

\* sep.join(parts)
RECURSIVE Join(_, _)
Join(sep, parts) ==
  IF parts = << >> THEN << >>
  ELSE IF Len(parts) = 1 THEN parts[1]
  ELSE parts[1] \o sep \o Join(sep, Tail(parts))

\* str(n) for an integer n.
RECURSIVE NatStr(_)
NatStr(n) ==
  IF n < 10 THEN <<Digits[n + 1]>> ELSE NatStr(n \div 10) \o <<Digits[(n % 10) + 1]>>

IntStr(n) == IF n < 0 THEN <<"-">> \o NatStr(0 - n) ELSE NatStr(n)

(***************************************************************************)
(* Sentence segmentation (core/segmentation.py)                            *)
(***************************************************************************)

ABBREVIATIONS ==
  {
    <<"b">>, <<"c">>, <<"d">>, <<"m">>, <<"a", "l">>, <<"c", "a">>, <<"c", "f">>,
    <<"c", "m">>, <<"c", "o">>, <<"d", "r">>, <<"e", "g">>, <<"f", "t">>, <<"i", "e">>,
    <<"i", "n">>, <<"j", "r">>, <<"k", "g">>, <<"k", "m">>, <<"l", "b">>, <<"m", "g">>,
    <<"m", "i">>, <<"m", "m">>, <<"m", "r">>, <<"m", "s">>, <<"n", "o">>, <<"o", "z">>,
    <<"p", "h">>, <<"p", "t">>, <<"q", "t">>, <<"s", "r">>, <<"v", "s">>,
    <<"a", "p", "r">>, <<"a", "u", "g">>, <<"a", "v", "g">>, <<"d", "e", "c">>,
    <<"e", "s", "t">>, <<"e", "t", "c">>, <<"f", "e", "b">>, <<"f", "i", "g">>,
    <<"f", "t", "p">>, <<"g", "a", "l">>, <<"h", "o", "n">>, <<"i", "n", "c">>,
    <<"j", "a", "n">>, <<"j", "u", "l">>, <<"j", "u", "n">>, <<"l", "l", "c">>,
    <<"l", "t", "d">>, <<"m", "a", "r">>, <<"m", "a", "x">>, <<"m", "i", "n">>,
    <<"m", "r", "s">>, <<"n", "o", "s">>, <<"n", "o", "v">>, <<"o", "c", "t">>,
    <<"r", "e", "v">>, <<"s", "e", "p">>, <<"v", "i", "z">>, <<"v", "o", "l">>,
    <<"w", "w", "w">>, <<"c", "o", "r", "p">>, <<"d", "e", "p", "t">>,
    <<"f", "i", "g", "s">>, <<"g", "o", "v", "t">>, <<"h", "t", "t", "p">>,
    <<"p", "r", "o", "f">>, <<"s", "e", "p", "t">>, <<"v", "o", "l", "s">>,
    <<"h", "t", "t", "p", "s">>, <<"a", "p", "p", "r", "o", "x">>
  }

SENTENCE_ENDERS == {".", "!", "?"}

\* Window of _is_false_ending around the candidate offset.
ContextBefore == 50
ContextAfter == 10

NotSpace(c) == ~IsSpace(c)
\* [a-zA-Z0-9_-]
IsFileChar(c) == IsAlpha(c) \/ IsDigit(c) \/ c \in {"_", "-"}

\* Membership of a character in a regex character class.
InClass(class, c) ==
  CASE class = "alpha"    -> IsAlpha(c)
    [] class = "digit"    -> IsDigit(c)
    [] class = "space"    -> IsSpace(c)
    [] class = "nonspace" -> NotSpace(c)
    [] class = "dot"      -> c = "."
    [] class = "file"     -> IsFileChar(c)
    [] class = "word"     -> IsWordChar(c)

\* End offset of the maximal run of characters of a class that starts at i
\* (a greedy "class*").
RECURSIVE RunEnd(_, _, _)
RunEnd(s, i, class) ==
  IF i < Len(s) /\ InClass(class, s[i + 1]) THEN RunEnd(s, i + 1, class) ELSE i

\* "^" under re.MULTILINE: start of the string or just after a newline.
AtLineStart(s, i) == i = 0 \/ At(s, i - 1) = "\n"

\* Case-insensitive match of the literal lit at offset i.
MatchesCI(s, i, lit) == Lower(Slice(s, i, i + Len(lit))) = lit /\ i + Len(lit) <= Len(s)

\* Each FALSE_ENDINGS alternative: the end offset of its match starting at
\* offset i of s, or -1 when it does not match there.  The whole pattern is
\* compiled with re.MULTILINE | re.IGNORECASE.

\* (?:^|(?<=\s))(?:abbreviation)\.
AbbrevEnd(s, i) ==
  LET j == RunEnd(s, i, "alpha")
  IN  IF /\ (AtLineStart(s, i) \/ IsSpace(At(s, i - 1)))
         /\ At(s, j) = "."
         /\ Lower(Slice(s, i, j)) \in ABBREVIATIONS
      THEN j + 1 ELSE -1

\* (?:^|\s)[A-Z]\.   ([A-Z] matches both cases under IGNORECASE)
InitialEnd(s, i) ==
  IF AtLineStart(s, i) /\ IsAlpha(At(s, i)) /\ At(s, i + 1) = "." THEN i + 2
  ELSE IF IsSpace(At(s, i)) /\ IsAlpha(At(s, i + 1)) /\ At(s, i + 2) = "." THEN i + 3
  ELSE -1

\* \d+\.\d+
DecimalEnd(s, i) ==
  LET j == RunEnd(s, i, "digit")
      k == RunEnd(s, j + 1, "digit")
  IN  IF j > i /\ At(s, j) = "." /\ k > j + 1 THEN k ELSE -1

\* [^\s]*[^\s.!?] starting at q: the longest run of non-whitespace whose last
\* character is not sentence punctuation (backtracking over the greedy star).
RECURSIVE UrlTailBack(_, _, _)
UrlTailBack(s, q, e) ==
  IF e <= q THEN -1
  ELSE IF s[e] \notin SENTENCE_ENDERS THEN e
  ELSE UrlTailBack(s, q, e - 1)

UrlTailEnd(s, q) == UrlTailBack(s, q, RunEnd(s, q, "nonspace"))

\* https?://[^\s]*[^\s.!?]
HttpEnd(s, i) ==
  IF MatchesCI(s, i, <<"h", "t", "t", "p", "s", ":", "/", "/">>) THEN UrlTailEnd(s, i + 8)
  ELSE IF MatchesCI(s, i, <<"h", "t", "t", "p", ":", "/", "/">>) THEN UrlTailEnd(s, i + 7)
  ELSE -1

\* www\.[^\s]*[^\s.!?]
WwwEnd(s, i) ==
  IF MatchesCI(s, i, <<"w", "w", "w", ".">>) THEN UrlTailEnd(s, i + 4) ELSE -1

\* [a-zA-Z0-9_-]+\.[a-z]{2,4}(?=\s|$)
FileExtEnd(s, i) ==
  LET j == RunEnd(s, i, "file")
      k == RunEnd(s, j + 1, "alpha")
  IN  IF /\ j > i
         /\ At(s, j) = "."
         /\ k - (j + 1) >= 2
         /\ k - (j + 1) <= 4
         /\ (k = Len(s) \/ IsSpace(At(s, k)))
      THEN k ELSE -1

\* \.{2,}
EllipsisEnd(s, i) ==
  LET j == RunEnd(s, i, "dot")
  IN  IF j - i >= 2 THEN j ELSE -1

\* FALSE_ENDING_PATTERN: the alternatives are tried in order at each offset.
FalseEndingMatchEnd(s, i) ==
  IF AbbrevEnd(s, i) # -1 THEN AbbrevEnd(s, i)
  ELSE IF InitialEnd(s, i) # -1 THEN InitialEnd(s, i)
  ELSE IF DecimalEnd(s, i) # -1 THEN DecimalEnd(s, i)
  ELSE IF HttpEnd(s, i) # -1 THEN HttpEnd(s, i)
  ELSE IF WwwEnd(s, i) # -1 THEN WwwEnd(s, i)
  ELSE IF FileExtEnd(s, i) # -1 THEN FileExtEnd(s, i)
  ELSE EllipsisEnd(s, i)

\* FALSE_ENDING_PATTERN.finditer(context), scanning from offset i: does some
\* (non-overlapping, leftmost) match cover rel_pos?
RECURSIVE FalseMatchCovers(_, _, _)
FalseMatchCovers(s, i, rel_pos) ==
  IF i >= Len(s) \/ i > rel_pos THEN FALSE
  ELSE LET e == FalseEndingMatchEnd(s, i)
       IN  IF e = -1 THEN FalseMatchCovers(s, i + 1, rel_pos)
           ELSE IF rel_pos < e THEN TRUE
           ELSE FalseMatchCovers(s, e, rel_pos)

\* Start of the run of letters that ends just before offset i.
RECURSIVE WordStart(_, _)
WordStart(s, i) ==
  IF i > 0 /\ IsAlpha(s[i]) THEN WordStart(s, i - 1) ELSE i

\* A variant of _is_false_ending without the look-back for an abbreviation
\* (only the pattern decides).
_is_false_ending_PatternOnly(text, pos) ==
  LET start   == Max(0, pos - ContextBefore)
      end     == Min(Len(text), pos + ContextAfter)
      context == Slice(text, start, end)
      rel_pos == pos - start
  IN  FalseMatchCovers(context, 0, rel_pos)

_is_false_ending(text, pos) ==
  LET start   == Max(0, pos - ContextBefore)
      end     == Min(Len(text), pos + ContextAfter)
      context == Slice(text, start, end)
      rel_pos == pos - start
      word    == Lower(Slice(context, WordStart(context, rel_pos), rel_pos))
  IN  \/ FalseMatchCovers(context, 0, rel_pos)
      \/ word \in ABBREVIATIONS

\* Lookahead class of SENTENCE_BOUNDARY_PATTERN: [A-Z"'\(\[0-9]
IsSentenceOpener(c) == IsUpper(c) \/ IsDigit(c) \/ c \in {"\"", "'", "(", "["}

\* A variant of BoundaryEnd whose match also consumes the lookahead character
\* (the pattern written without the (?=...) group).
BoundaryEnd_ConsumesOpener(s, i) ==
  LET j == RunEnd(s, i + 1, "space")
  IN  IF At(s, i) \in SENTENCE_ENDERS /\ j > i + 1 /\ IsSentenceOpener(At(s, j))
      THEN j + 1 ELSE -1

\* SENTENCE_BOUNDARY_PATTERN matched at offset i: the match's end offset
\* (after the whitespace), or -1.
BoundaryEnd(s, i) ==
  LET j == RunEnd(s, i + 1, "space")
  IN  IF At(s, i) \in SENTENCE_ENDERS /\ j > i + 1 /\ IsSentenceOpener(At(s, j))
      THEN j ELSE -1

Sentence(text, start, end) == [text |-> text, start |-> start, end |-> end]

\* The finditer loop of segment_sentences from scan offset i, with the
\* sentences found so far, followed by the "remaining text" step.
RECURSIVE SegmentFrom(_, _, _, _)
SegmentFrom(text, i, current_start, sentences) ==
  IF i >= Len(text) THEN
    LET remaining == Strip(Slice(text, current_start, Len(text)))
    IN  IF remaining # << >>
        THEN Append(sentences,
                    Sentence(remaining, SkipSpace(text, current_start), Len(text)))
        ELSE sentences
  ELSE
    LET m == BoundaryEnd(text, i)
    IN  IF m = -1 THEN SegmentFrom(text, i + 1, current_start, sentences)
        ELSE IF _is_false_ending(text, i)
        THEN SegmentFrom(text, m, current_start, sentences)
        ELSE LET end_pos       == i + 1
                 sentence_text == Strip(Slice(text, current_start, end_pos))
             IN  IF sentence_text # << >>
                 THEN SegmentFrom(text, m, m,
                        Append(sentences,
                               Sentence(sentence_text,
                                        SkipSpace(text, current_start), end_pos)))
                 ELSE SegmentFrom(text, m, m, sentences)

segment_sentences(text) ==
  IF IsBlank(text) THEN << >> ELSE SegmentFrom(text, 0, 0, << >>)

(***************************************************************************)
(* Tokenizers (tokenizers/character.py)                                    *)
(***************************************************************************)

\* CharacterTokenizer(chars_per_token = num/den) and WordTokenizer().
CharacterTokenizer(num, den) == [kind |-> "chars", num |-> num, den |-> den]
WordTokenizer == [kind |-> "words", num |-> 1, den |-> 1]

\* BaseTokenizer.name (the _name attribute of the two classes).
TokenizerName(tok) == IF tok.kind = "chars" THEN "chars" ELSE "words"

\* len(text.split()): the number of maximal runs of non-whitespace.
RECURSIVE WordCountFrom(_, _)
WordCountFrom(s, i) ==
  LET a == SkipSpace(s, i)
  IN  IF a >= Len(s) THEN 0 ELSE 1 + WordCountFrom(s, RunEnd(s, a, "nonspace"))

WordCount(s) == WordCountFrom(s, 0)

\* CharacterTokenizer.count_tokens: max(1, int(len(text) / chars_per_token));
\* WordTokenizer.count_tokens: len(words) if words else 0.
count_tokens(tok, text) ==
  IF tok.kind = "chars" THEN Max(1, (Len(text) * tok.den) \div tok.num)
  ELSE WordCount(text)

\* CharacterTokenizer.encode: [ord(c) for c in text];
\* WordTokenizer.encode: list(range(len(words))).
encode(tok, text) ==
  IF tok.kind = "chars" THEN [i \in 1..Len(text) |-> Ord(text[i])]
  ELSE [i \in 1..WordCount(text) |-> i - 1]

\* CharacterTokenizer.decode: "".join(chr(t) for t in tokens);
\* WordTokenizer.decode: f"[{len(tokens)} words]".
decode(tok, tokens) ==
  IF tok.kind = "chars" THEN [i \in 1..Len(tokens) |-> Chr(tokens[i])]
  ELSE <<"[">> \o IntStr(Len(tokens)) \o <<" ", "w", "o", "r", "d", "s", "]">>

(***************************************************************************)
(* Chunk and ChunkMetadata (core/schema.py)                                *)
(***************************************************************************)

ChunkMetadata(source, position, section_header, chunk_index) ==
  [source          |-> source,
   position        |-> position,
   section_header  |-> section_header,
   parent_chunk_id |-> None,
   chunk_index     |-> chunk_index,
   total_chunks    |-> None,
   custom          |-> << >>]

\* A variant of with_update whose rebuild loses the position tuple.
with_update_DropsPosition(metadata, changes) ==
  [f \in DOMAIN metadata |->
     IF f \in DOMAIN changes THEN changes[f]
     ELSE IF f = "position" THEN None ELSE metadata[f]]

\* ChunkMetadata.with_update(**changes): asdict(self), update, rebuild.
with_update(metadata, changes) ==
  [f \in DOMAIN metadata |-> IF f \in DOMAIN changes THEN changes[f] ELSE metadata[f]]

\* str(position): "None" or "(start, end)".
PositionStr(position) ==
  IF position = None THEN <<"N", "o", "n", "e">>
  ELSE <<"(">> \o IntStr(position[1]) \o <<",", " ">> \o IntStr(position[2]) \o <<")">>

\* A variant of ChunkIdContent that hashes the text alone.
ChunkIdContent_TextOnly(text, position) == text

\* The string _generate_chunk_id hashes: f"{text}|{position}".
ChunkIdContent(text, position) == text \o <<"|">> \o PositionStr(position)

\* hashlib.sha256(content).hexdigest()[:16], kept symbolic: the digest prefix
\* of a content string is represented by that string under the tag "sha256".
Sha256Hex16(content) == <<"sha256", content>>

_generate_chunk_id(text, position) == Sha256Hex16(ChunkIdContent(text, position))

\* Chunk(text, metadata, token_counts) with __post_init__ filling chunk_id.
Chunk(text, metadata, token_counts) ==
  [text         |-> text,
   metadata     |-> metadata,
   token_counts |-> token_counts,
   chunk_id     |-> _generate_chunk_id(text, metadata.position)]

(***************************************************************************)
(* TextChunker helpers (core/chunker.py)                                   *)
(***************************************************************************)

Fence == <<Backtick, Backtick, Backtick>>

\* Offset of the first closing fence "^```" at or after offset k, or -1.
RECURSIVE ClosingFence(_, _)
ClosingFence(s, k) ==
  IF k + 3 > Len(s) THEN -1
  ELSE IF AtLineStart(s, k) /\ Slice(s, k, k + 3) = Fence THEN k
  ELSE ClosingFence(s, k + 1)

\* CODE_BLOCK_PATTERN  ^```[\w]*\n.*?^```  (MULTILINE | DOTALL) matched at
\* offset i: the end offset of the match, or -1.
CodeBlockEnd(s, i) ==
  LET j == RunEnd(s, i + 3, "word")
      k == ClosingFence(s, j + 1)
  IN  IF /\ AtLineStart(s, i)
         /\ Slice(s, i, i + 3) = Fence
         /\ At(s, j) = "\n"
         /\ k # -1
      THEN k + 3 ELSE -1

\* f"__CODE_BLOCK_{i}__"
Placeholder(i) ==
  <<"_", "_", "C", "O", "D", "E", "_", "B", "L", "O", "C", "K", "_">>
    \o IntStr(i) \o <<"_", "_">>

\* _extract_code_blocks: CODE_BLOCK_PATTERN.finditer(text) from offset i, the
\* blocks found so far in `blocks`.
RECURSIVE ExtractFrom(_, _, _)
ExtractFrom(text, i, blocks) ==
  IF i >= Len(text) THEN blocks
  ELSE LET e == CodeBlockEnd(text, i)
       IN  IF e = -1 THEN ExtractFrom(text, i + 1, blocks)
           ELSE ExtractFrom(text, e,
                  Append(blocks, [code        |-> Slice(text, i, e),
                                  start       |-> i,
                                  end         |-> e,
                                  placeholder |-> Placeholder(Len(blocks))]))

_extract_code_blocks(text) == ExtractFrom(text, 0, << >>)

\* The loop of _protect_code_blocks over reversed(blocks): blocks[n] down to
\* blocks[1]; `replacements` lists the dict's items in insertion order.
RECURSIVE ProtectFrom(_, _, _, _)
ProtectFrom(blocks, n, protected_text, replacements) ==
  IF n = 0 THEN [text |-> protected_text, replacements |-> replacements]
  ELSE LET b == blocks[n]
       IN  ProtectFrom(blocks, n - 1,
             Slice(protected_text, 0, b.start) \o b.placeholder
               \o Slice(protected_text, b.end, Len(protected_text)),
             Append(replacements, <<b.placeholder, b.code>>))

_protect_code_blocks(preserve_code_blocks, text) ==
  IF ~preserve_code_blocks THEN [text |-> text, replacements |-> << >>]
  ELSE LET blocks == _extract_code_blocks(text)
       IN  ProtectFrom(blocks, Len(blocks), text, << >>)

\* str.replace(old, new) from offset i (old is never empty here): the
\* leftmost occurrence at or after i is replaced, then the text after it.
RECURSIVE ReplaceFrom(_, _, _, _)
ReplaceFrom(s, i, old, new) ==
  LET hits == {k \in i..(Len(s) - Len(old)) : Slice(s, k, k + Len(old)) = old}
  IN  IF hits = {} THEN Slice(s, i, Len(s))
      ELSE LET k == CHOOSE h \in hits : \A g \in hits : h <= g
           IN  Slice(s, i, k) \o new \o ReplaceFrom(s, k + Len(old), old, new)

Replace(s, old, new) == ReplaceFrom(s, 0, old, new)

\* _restore_code_blocks: one str.replace per dict item, in insertion order.
RECURSIVE _restore_code_blocks(_, _)
_restore_code_blocks(text, replacements) ==
  IF replacements = << >> THEN text
  ELSE _restore_code_blocks(Replace(text, replacements[1][1], replacements[1][2]),
                            Tail(replacements))

\* _hard_split raises ValueError: range() with a zero step.
HardSplitRaises(tok, text, max_tokens) ==
  Len(encode(tok, text)) > max_tokens /\ max_tokens = 0

\* A variant of HardSplitRuns whose slices are one unit wider than the step.
HardSplitRuns_Overlapping(tokens, max_tokens) ==
  [k \in 1..((Len(tokens) + max_tokens - 1) \div max_tokens) |->
     Slice(tokens, (k - 1) * max_tokens, k * max_tokens + 1)]

\* The slices tokens[i:i + max_tokens] for i in range(0, len(tokens),
\* max_tokens), with max_tokens > 0 (lines 131-132).
HardSplitRuns(tokens, max_tokens) ==
  [k \in 1..((Len(tokens) + max_tokens - 1) \div max_tokens) |->
     Slice(tokens, (k - 1) * max_tokens, k * max_tokens)]

\* _hard_split(text, max_tokens) when it returns.
_hard_split(tok, text, max_tokens) ==
  LET tokens == encode(tok, text)
  IN  IF Len(tokens) <= max_tokens THEN <<text>>
      ELSE IF max_tokens < 0 THEN << >>
      ELSE LET runs == HardSplitRuns(tokens, max_tokens)
           IN  [k \in 1..Len(runs) |-> decode(tok, runs[k])]

\* sum(count_tokens(s.text) for s in sentences)
RECURSIVE SumTokens(_, _)
SumTokens(tok, sentences) ==
  IF sentences = << >> THEN 0
  ELSE count_tokens(tok, sentences[1].text) + SumTokens(tok, Tail(sentences))

\* The backward walk of _get_overlap_sentences from sentences[n].
RECURSIVE OverlapFrom(_, _, _, _, _, _)
OverlapFrom(tok, limit, sentences, n, overlap, overlap_tokens) ==
  IF n = 0 THEN overlap
  ELSE LET sentence_tokens == count_tokens(tok, sentences[n].text)
       IN  IF overlap_tokens + sentence_tokens > limit THEN overlap
           ELSE OverlapFrom(tok, limit, sentences, n - 1,
                            <<sentences[n]>> \o overlap,
                            overlap_tokens + sentence_tokens)

\* A variant of _get_overlap_sentences that stops the walk as soon as the
\* overlap reaches overlap_tokens (>= in place of >).
_get_overlap_sentences_StopsAtLimit(self, sentences) ==
  IF self.overlap_tokens <= 0 \/ sentences = << >> THEN << >>
  ELSE OverlapFrom(self.tokenizer, self.overlap_tokens - 1, sentences,
                   Len(sentences), << >>, 0)

_get_overlap_sentences(self, sentences) ==
  IF self.overlap_tokens <= 0 \/ sentences = << >> THEN << >>
  ELSE OverlapFrom(self.tokenizer, self.overlap_tokens, sentences,
                   Len(sentences), << >>, 0)

TokenCounts(tok, text) == [n \in {TokenizerName(tok)} |-> count_tokens(tok, text)]

\* A variant of _create_chunk whose span starts at the last sentence.
_create_chunk_SpanOfLast(self, sentences, section_header, index) ==
  LET text  == Join(<<" ">>, [i \in 1..Len(sentences) |-> sentences[i].text])
      start == IF sentences # << >> THEN sentences[Len(sentences)].start ELSE 0
      end   == IF sentences # << >> THEN sentences[Len(sentences)].end ELSE 0
  IN  Chunk(text,
            ChunkMetadata(self.source, <<start, end>>, section_header, index),
            TokenCounts(self.tokenizer, text))

_create_chunk(self, sentences, section_header, index) ==
  LET text  == Join(<<" ">>, [i \in 1..Len(sentences) |-> sentences[i].text])
      start == IF sentences # << >> THEN sentences[1].start ELSE 0
      end   == IF sentences # << >> THEN sentences[Len(sentences)].end ELSE 0
  IN  Chunk(text,
            ChunkMetadata(self.source, <<start, end>>, section_header, index),
            TokenCounts(self.tokenizer, text))

\* A variant of HardChunks that takes len(chunks) once, before the loop.
HardChunks_StaleIndex(self, sentence, section_header, first_index) ==
  LET pieces == _hard_split(self.tokenizer, sentence.text, self.max_tokens)
  IN  [k \in 1..Len(pieces) |->
         Chunk(pieces[k],
               ChunkMetadata(self.source, <<sentence.start, sentence.end>>,
                             section_header, first_index),
               TokenCounts(self.tokenizer, pieces[k]))]

\* The chunks appended for the hard-split pieces of one oversized sentence;
\* chunk_index is len(chunks) at the time each piece is appended.
HardChunks(self, sentence, section_header, first_index) ==
  LET pieces == _hard_split(self.tokenizer, sentence.text, self.max_tokens)
  IN  [k \in 1..Len(pieces) |->
         Chunk(pieces[k],
               ChunkMetadata(self.source, <<sentence.start, sentence.end>>,
                             section_header, first_index + k - 1),
               TokenCounts(self.tokenizer, pieces[k]))]

\* Lines 275-291 of TextChunker.chunk: protect, segment, restore.
PreparedSentences(self, text) ==
  LET p     == _protect_code_blocks(self.preserve_code_blocks, text)
      sents == segment_sentences(p.text)
  IN  IF p.replacements = << >> THEN sents
      ELSE [i \in 1..Len(sents) |->
              Sentence(_restore_code_blocks(sents[i].text, p.replacements),
                       sents[i].start, sents[i].end)]

\* The "Update total_chunks count" pass of TextChunker.chunk.
FinalChunks(chunks) ==
  [i \in 1..Len(chunks) |->
     Chunk(chunks[i].text,
           with_update(chunks[i].metadata, [total_chunks |-> Len(chunks)]),
           chunks[i].token_counts)]

(***************************************************************************)
(* Validators (validators/integrity.py)                                    *)
(***************************************************************************)

\* ValidationError(chunk_id, message, details) and ValidationWarning(...):
\* the severity defaults of the two dataclasses. A message is kept as the
\* parts of its f-string, in order.
ValidationError(chunk_id, message, details) ==
  [chunk_id |-> chunk_id, message |-> message, severity |-> "error",
   details |-> details]

ValidationWarning(chunk_id, message, details) ==
  [chunk_id |-> chunk_id, message |-> message, severity |-> "warning",
   details |-> details]

DANGLING_PRONOUNS ==
  {
    <<"h", "e">>, <<"s", "h", "e">>, <<"i", "t">>, <<"t", "h", "e", "y">>,
    <<"w", "e">>, <<"h", "i", "m">>, <<"h", "e", "r">>,
    <<"t", "h", "e", "m">>, <<"u", "s">>, <<"h", "i", "s">>,
    <<"h", "e", "r", "s">>, <<"i", "t", "s">>, <<"t", "h", "e", "i", "r">>,
    <<"t", "h", "e", "i", "r", "s">>, <<"o", "u", "r">>,
    <<"o", "u", "r", "s">>, <<"t", "h", "i", "s">>, <<"t", "h", "a", "t">>,
    <<"t", "h", "e", "s", "e">>, <<"t", "h", "o", "s", "e">>,
    <<"w", "h", "i", "c", "h">>, <<"w", "h", "o">>, <<"w", "h", "o", "m">>
  }

\* REFERENCE_PATTERNS: the alternatives of each pattern, in regex order
\* (the inner group of the third pattern is written out).
REFERENCE_PATTERNS ==
  <<
    <<
      <<"a", "s", " ", "m", "e", "n", "t", "i", "o", "n", "e", "d">>,
      <<"a", "s", " ", "n", "o", "t", "e", "d">>,
      <<"a", "s", " ", "d", "e", "s", "c", "r", "i", "b", "e", "d">>,
      <<"a", "s", " ", "s", "h", "o", "w", "n">>,
      <<"a", "s", " ", "s", "t", "a", "t", "e", "d">>
    >>,
    <<
      <<"s", "e", "e", " ", "a", "b", "o", "v", "e">>,
      <<"m", "e", "n", "t", "i", "o", "n", "e", "d", " ", "a", "b", "o", "v", "e">>,
      <<"d", "e", "s", "c", "r", "i", "b", "e", "d", " ", "a", "b", "o", "v", "e">>,
      <<"n", "o", "t", "e", "d", " ", "a", "b", "o", "v", "e">>
    >>,
    <<
      <<"t", "h", "e", " ", "a", "b", "o", "v", "e">>,
      <<"t", "h", "e", " ", "p", "r", "e", "v", "i", "o", "u", "s">>,
      <<"t", "h", "e", " ", "a", "f", "o", "r", "e", "m", "e", "n", "t", "i", "o", "n", "e", "d">>,
      <<"t", "h", "e", " ", "f", "o", "l", "l", "o", "w", "i", "n", "g">>
    >>,
    <<

      <<"i", "n", " ", "t", "h", "e", " ", "p", "r", "e", "v", "i", "o", "u", "s">>,
      <<"i", "n", " ", "t", "h", "e", " ", "l", "a", "s", "t">>,
      <<"i", "n", " ", "t", "h", "e", " ", "n", "e", "x", "t">>
    >>
  >>

\* The default tolerance of validate_roundtrip, 0.95, as a fraction.
DefaultToleranceNum == 95
DefaultToleranceDen == 100

\* first_sentence[:100] and text[:200] of flag_dangling_references.
FirstSentenceLimit == 100
ReferenceWindow == 200

\* A variant of validate_token_limits that also reports a chunk of exactly
\* max_tokens tokens.
validate_token_limits_Inclusive(chunks, max_tokens, tok) ==
  LET errs[i \in 1..(Len(chunks) + 1)] ==
        IF i > Len(chunks) THEN << >>
        ELSE LET token_count == count_tokens(tok, chunks[i].text)
             IN  IF token_count >= max_tokens
                 THEN <<ValidationError(
                          chunks[i].chunk_id,
                          <<"Exceeds token limit: ", token_count, " > ",
                            max_tokens>>,
                          [token_count |-> token_count,
                           max_tokens  |-> max_tokens,
                           excess      |-> token_count - max_tokens])>>
                        \o errs[i + 1]
                 ELSE errs[i + 1]
  IN  errs[1]

\* validate_token_limits(chunks, max_tokens, tokenizer): errs[i] is what
\* the loop appends from chunks[i] on.
validate_token_limits(chunks, max_tokens, tok) ==
  LET errs[i \in 1..(Len(chunks) + 1)] ==
        IF i > Len(chunks) THEN << >>
        ELSE LET token_count == count_tokens(tok, chunks[i].text)
             IN  IF token_count > max_tokens
                 THEN <<ValidationError(
                          chunks[i].chunk_id,
                          <<"Exceeds token limit: ", token_count, " > ",
                            max_tokens>>,
                          [token_count |-> token_count,
                           max_tokens  |-> max_tokens,
                           excess      |-> token_count - max_tokens])>>
                        \o errs[i + 1]
                 ELSE errs[i + 1]
  IN  errs[1]

\* s.split(): the maximal runs of non-whitespace, from[i] those from
\* offset i on.
Words(s) ==
  LET from[k \in 0..Len(s)] ==
        LET i == Len(s) - k
            a == SkipSpace(s, i)
            b == RunEnd(s, a, "nonspace")
        IN  IF a >= Len(s) THEN << >>
            ELSE <<Slice(s, a, b)>> \o from[Len(s) - b]
  IN  from[Len(s)]

\* A variant of validate_roundtrip that tests "if original" in place of
\* "if original.strip()".
validate_roundtrip_Unstripped(original, chunks, tol_num, tol_den, overlap_aware) ==
  IF chunks = << >> THEN
    IF original # << >>
    THEN <<ValidationError("N/A",
                           <<"No chunks produced from non-empty input">>,
                           [original_length |-> Len(original)])>>
    ELSE << >>
  ELSE
    LET reconstructed     == Join(<<" ">>, [i \in 1..Len(chunks) |-> chunks[i].text])
        original_len      == Len(Join(<<" ">>, Words(original)))
        reconstructed_len == Len(Join(<<" ">>, Words(reconstructed)))
        lo                == Min(reconstructed_len, original_len)
        hi                == Max(reconstructed_len, original_len)
    IN  IF original_len = 0 THEN << >>
        ELSE IF overlap_aware THEN
          IF reconstructed_len * tol_den < original_len * tol_num
          THEN <<ValidationError(
                   "roundtrip",
                   <<"Content loss detected: reconstructed has ",
                     reconstructed_len, " chars vs original ", original_len>>,
                   [original_length      |-> original_len,
                    reconstructed_length |-> reconstructed_len,
                    ratio                |-> <<reconstructed_len, original_len>>,
                    tolerance            |-> <<tol_num, tol_den>>])>>
          ELSE << >>
        ELSE
          IF lo * tol_den < hi * tol_num
          THEN <<ValidationError(
                   "roundtrip",
                   <<"Content mismatch: ratio ", <<lo, hi>>,
                     " below tolerance ", <<tol_num, tol_den>>>>,
                   [original_length      |-> original_len,
                    reconstructed_length |-> reconstructed_len,
                    ratio                |-> <<lo, hi>>,
                    tolerance            |-> <<tol_num, tol_den>>])>>
          ELSE << >>

\* validate_roundtrip(original, chunks, tolerance, overlap_aware), the
\* tolerance given as the fraction tol_num / tol_den.
validate_roundtrip(original, chunks, tol_num, tol_den, overlap_aware) ==
  IF chunks = << >> THEN
    IF Strip(original) # << >>
    THEN <<ValidationError("N/A",
                           <<"No chunks produced from non-empty input">>,
                           [original_length |-> Len(original)])>>
    ELSE << >>
  ELSE
    LET reconstructed     == Join(<<" ">>, [i \in 1..Len(chunks) |-> chunks[i].text])
        original_len      == Len(Join(<<" ">>, Words(original)))
        reconstructed_len == Len(Join(<<" ">>, Words(reconstructed)))
        lo                == Min(reconstructed_len, original_len)
        hi                == Max(reconstructed_len, original_len)
    IN  IF original_len = 0 THEN << >>
        ELSE IF overlap_aware THEN
          IF reconstructed_len * tol_den < original_len * tol_num
          THEN <<ValidationError(
                   "roundtrip",
                   <<"Content loss detected: reconstructed has ",
                     reconstructed_len, " chars vs original ", original_len>>,
                   [original_length      |-> original_len,
                    reconstructed_length |-> reconstructed_len,
                    ratio                |-> <<reconstructed_len, original_len>>,
                    tolerance            |-> <<tol_num, tol_den>>])>>
          ELSE << >>
        ELSE
          IF lo * tol_den < hi * tol_num
          THEN <<ValidationError(
                   "roundtrip",
                   <<"Content mismatch: ratio ", <<lo, hi>>,
                     " below tolerance ", <<tol_num, tol_den>>>>,
                   [original_length      |-> original_len,
                    reconstructed_length |-> reconstructed_len,
                    ratio                |-> <<lo, hi>>,
                    tolerance            |-> <<tol_num, tol_den>>])>>
          ELSE << >>

\* pattern.search(s) for a pattern \b(?:p1|p2|...)\b compiled with
\* re.IGNORECASE: [start, phrase] of the leftmost match, taking the first
\* alternative that matches there, or << >> for None. The phrase is the
\* matched text of s, in its own case.
PhraseSearch(s, phrases) ==
  LET boundary(i) == IsWordChar(At(s, i - 1)) # IsWordChar(At(s, i))
      matches(i, k) ==
        /\ i + Len(phrases[k]) <= Len(s)
        /\ Lower(Slice(s, i, i + Len(phrases[k]))) = phrases[k]
        /\ boundary(i)
        /\ boundary(i + Len(phrases[k]))
      starts == {i \in 0..(Len(s) - 1) : \E k \in 1..Len(phrases) : matches(i, k)}
  IN  IF starts = {} THEN << >>
      ELSE LET i == CHOOSE a \in starts : \A b \in starts : a <= b
               k == CHOOSE a \in 1..Len(phrases) :
                      /\ matches(i, a)
                      /\ \A b \in 1..(a - 1) : ~matches(i, b)
           IN  [start |-> i, phrase |-> Slice(s, i, i + Len(phrases[k]))]

\* The "Check for pronoun at start" step for the chunk at 0-based index i.
PronounWarnings(chunk, text, i) ==
  LET dots           == {d \in 0..(Len(text) - 1) : At(text, d) = "."}
      first_sentence == IF dots = {} THEN text
                        ELSE Slice(text, 0, CHOOSE d \in dots :
                                              \A e \in dots : d <= e)
      words          == Words(first_sentence)
      first_word     == IF words # << >> THEN words[1] ELSE << >>
  IN  IF Lower(first_word) \in DANGLING_PRONOUNS
      THEN <<ValidationWarning(
               chunk.chunk_id,
               <<"Starts with pronoun '", first_word,
                 "' - possible dangling reference">>,
               [pronoun        |-> first_word,
                first_sentence |-> Slice(first_sentence, 0, FirstSentenceLimit),
                chunk_index    |-> i])>>
      ELSE << >>

\* A variant of ReferenceWarnings without the break: one warning for every
\* pattern that matches.
RECURSIVE ReferenceWarnings_NoBreak(_, _, _, _)
ReferenceWarnings_NoBreak(chunk, text, i, p) ==
  IF p > Len(REFERENCE_PATTERNS) THEN << >>
  ELSE LET match == PhraseSearch(Slice(text, 0, ReferenceWindow),
                                 REFERENCE_PATTERNS[p])
       IN  IF match # << >>
           THEN <<ValidationWarning(
                    chunk.chunk_id,
                    <<"Contains reference phrase '", match.phrase,
                      "' - may need context">>,
                    [phrase      |-> match.phrase,
                     position    |-> match.start,
                     chunk_index |-> i])>>
                  \o ReferenceWarnings_NoBreak(chunk, text, i, p + 1)
           ELSE ReferenceWarnings_NoBreak(chunk, text, i, p + 1)

\* The "Check for reference phrases" loop from pattern p: the warning of the
\* first pattern that matches, then break.
RECURSIVE ReferenceWarnings(_, _, _, _)
ReferenceWarnings(chunk, text, i, p) ==
  IF p > Len(REFERENCE_PATTERNS) THEN << >>
  ELSE LET match == PhraseSearch(Slice(text, 0, ReferenceWindow),
                                 REFERENCE_PATTERNS[p])
       IN  IF match # << >>
           THEN <<ValidationWarning(
                    chunk.chunk_id,
                    <<"Contains reference phrase '", match.phrase,
                      "' - may need context">>,
                    [phrase      |-> match.phrase,
                     position    |-> match.start,
                     chunk_index |-> i])>>
           ELSE ReferenceWarnings(chunk, text, i, p + 1)

\* flag_dangling_references(chunks): from[i] is what the loop appends from
\* the chunk at 0-based index i on.
flag_dangling_references(chunks) ==
  LET from[k \in 0..Len(chunks)] ==
        LET i == Len(chunks) - k
        IN  IF i >= Len(chunks) THEN << >>
            ELSE LET chunk == chunks[i + 1]
                     text  == Strip(chunk.text)
                 IN  IF text = << >> \/ i = 0 THEN from[k - 1]
                     ELSE PronounWarnings(chunk, text, i)
                            \o ReferenceWarnings(chunk, text, i, 1)
                            \o from[k - 1]
  IN  from[Len(chunks)]

\* validate_chunks(chunks, original, max_tokens, tokenizer, check_references):
\* the tuple (errors, warnings). An optional max_tokens or tokenizer is a
\* sequence of no value (None) or one value.
validate_chunks(chunks, original, max_tokens, tok, check_references) ==
  LET limit_errors == IF max_tokens # << >> /\ tok # << >>
                      THEN validate_token_limits(chunks, max_tokens[1], tok[1])
                      ELSE << >>
      trip_errors  == IF original # None
                      THEN validate_roundtrip(original, chunks,
                                              DefaultToleranceNum,
                                              DefaultToleranceDen, TRUE)
                      ELSE << >>
      warnings     == IF check_references
                      THEN flag_dangling_references(chunks)
                      ELSE << >>
  IN  <<limit_errors \o trip_errors, warnings>>

\* A variant of _validate_chunks that rejects the chunks over the limit.
_validate_chunks_Rejects(validate_flag, self, chunks) ==
  LET violations == IF validate_flag
                    THEN validate_token_limits(chunks, self.max_tokens,
                                               self.tokenizer)
                    ELSE << >>
  IN  [chunks |-> SelectSeq(chunks,
                    LAMBDA c : \A k \in 1..Len(violations) :
                                 violations[k].chunk_id # c.chunk_id),
       warned |-> violations]

\* "if self.validate: self._validate_chunks(chunks)": the chunks the caller
\* goes on with and the violations passed to warnings.warn (none when the
\* list is empty or validation is off).
_validate_chunks(validate_flag, self, chunks) ==
  [chunks |-> chunks,
   warned |-> IF validate_flag
              THEN validate_token_limits(chunks, self.max_tokens, self.tokenizer)
              ELSE << >>]

(***************************************************************************)
(* SemanticChunker (semantic/boundaries.py)                                *)
(***************************************************************************)

\* cosine_similarity(vec1, vec2) < num/den for two integer vectors of the
\* same length and a threshold num/den >= 0: the similarity is 0.0 when a
\* norm is 0, else dot / (norm1 * norm2).
CosineBelow(vec1, vec2, num, den) ==
  LET Dot(a, b) ==
        LET d[i \in 0..Len(a)] == IF i = 0 THEN 0 ELSE d[i - 1] + a[i] * b[i]
        IN  d[Len(a)]
      dot_product == Dot(vec1, vec2)
      sq1 == Dot(vec1, vec1)
      sq2 == Dot(vec2, vec2)
  IN  IF sq1 = 0 \/ sq2 = 0 THEN 0 < num
      ELSE \/ dot_product < 0
           \/ dot_product * dot_product * den * den < num * num * sq1 * sq2

\* find_semantic_boundaries(sentences, embeddings, threshold = num/den,
\* min_chunk_size) for len(embeddings) = len(sentences) = n.
find_semantic_boundaries(n, embeddings, num, den, min_chunk_size) ==
  LET walk[i \in 0..Max(0, n - 1)] ==
        IF i = 0 THEN [boundaries |-> << >>, last_boundary |-> 0]
        ELSE LET w == walk[i - 1]
             IN  IF i - w.last_boundary < min_chunk_size THEN w
                 ELSE IF CosineBelow(embeddings[i], embeddings[i + 1], num, den)
                      THEN [boundaries    |-> Append(w.boundaries, i),
                            last_boundary |-> i]
                      ELSE w
  IN  walk[Max(0, n - 1)].boundaries

SemanticChunker(similarity_threshold, max_tokens, tokenizer, min_sentences_per_chunk, source) ==
  [similarity_threshold    |-> similarity_threshold,
   max_tokens              |-> max_tokens,
   tokenizer               |-> tokenizer,
   min_sentences_per_chunk |-> min_sentences_per_chunk,
   source                  |-> source]

\* SemanticChunker._split_at_token_limit; SemanticChunker._create_chunk has
\* the body of TextChunker._create_chunk.
_split_at_token_limit(self, sentences, section_header, start_index) ==
  LET loop[i \in 0..Len(sentences)] ==
        IF i = 0 THEN [chunks |-> << >>, current |-> << >>, current_tokens |-> 0]
        ELSE LET st              == loop[i - 1]
                 sentence        == sentences[i]
                 sentence_tokens == count_tokens(self.tokenizer, sentence.text)
                 closes          == /\ st.current_tokens + sentence_tokens
                                         > self.max_tokens
                                    /\ st.current # << >>
             IN  [chunks         |-> IF closes
                                     THEN Append(st.chunks,
                                            _create_chunk(self, st.current,
                                              section_header,
                                              start_index + Len(st.chunks)))
                                     ELSE st.chunks,
                  current        |-> IF closes THEN <<sentence>>
                                     ELSE Append(st.current, sentence),
                  current_tokens |-> IF closes THEN sentence_tokens
                                     ELSE st.current_tokens + sentence_tokens]
      last == loop[Len(sentences)]
  IN  IF last.current # << >>
      THEN Append(last.chunks,
                  _create_chunk(self, last.current, section_header,
                                start_index + Len(last.chunks)))
      ELSE last.chunks

\* SemanticChunker.chunk, lines 213-223 and 230-236: the chunks of one
\* group of sentences are appended to the chunks made so far.
SemanticGroup(self, chunks, group, section_header) ==
  LET chunk_text == Join(<<" ">>, [i \in 1..Len(group) |-> group[i].text])
  IN  IF count_tokens(self.tokenizer, chunk_text) > self.max_tokens
      THEN chunks \o _split_at_token_limit(self, group, section_header,
                                           Len(chunks))
      ELSE Append(chunks, _create_chunk(self, group, section_header,
                                        Len(chunks)))

\* One iteration of the for loop of _group_sentences_into_chunks, by branch.
\* st = [chunks, current_sentences, current_tokens].

\* A variant of OversizedStep that seeds the accumulator with the overlap
\* sentences of the flushed chunk, as the ordinary emission does.
OversizedStep_KeepsOverlap(self, st, sentence, section_header) ==
  LET flushed == IF st.current_sentences # << >>
                 THEN Append(st.chunks,
                             _create_chunk(self, st.current_sentences,
                                           section_header, Len(st.chunks)))
                 ELSE st.chunks
      overlap_sentences == _get_overlap_sentences(self, st.current_sentences)
  IN  [chunks            |-> flushed \o HardChunks(self, sentence, section_header,
                                                   Len(flushed)),
       current_sentences |-> overlap_sentences,
       current_tokens    |-> SumTokens(self.tokenizer, overlap_sentences)]

\* "Handle oversized sentences": flush, then hard split (lines 161-185).
OversizedStep(self, st, sentence, section_header) ==
  LET flushed == IF st.current_sentences # << >>
                 THEN Append(st.chunks,
                             _create_chunk(self, st.current_sentences,
                                           section_header, Len(st.chunks)))
                 ELSE st.chunks
  IN  [chunks            |-> flushed \o HardChunks(self, sentence, section_header,
                                                   Len(flushed)),
       current_sentences |-> << >>,
       current_tokens    |-> 0]

\* "Close current chunk", "Start new chunk with overlap", then add the
\* sentence (lines 188-203).
EmitStep(self, st, sentence, section_header) ==
  LET overlap_sentences == _get_overlap_sentences(self, st.current_sentences)
  IN  [chunks            |-> Append(st.chunks,
                                    _create_chunk(self, st.current_sentences,
                                                  section_header, Len(st.chunks))),
       current_sentences |-> Append(overlap_sentences, sentence),
       current_tokens    |-> SumTokens(self.tokenizer, overlap_sentences)
                               + count_tokens(self.tokenizer, sentence.text)]

\* A variant of AppendStep that restarts the accumulator at the sentence.
AppendStep_DropsEarlier(self, st, sentence) ==
  [chunks            |-> st.chunks,
   current_sentences |-> <<sentence>>,
   current_tokens    |-> count_tokens(self.tokenizer, sentence.text)]

\* "Add sentence to current chunk" (lines 201-203).
AppendStep(self, st, sentence) ==
  [chunks            |-> st.chunks,
   current_sentences |-> Append(st.current_sentences, sentence),
   current_tokens    |-> st.current_tokens
                           + count_tokens(self.tokenizer, sentence.text)]

IsOversized(self, sentence) ==
  count_tokens(self.tokenizer, sentence.text) > self.max_tokens

ExceedsBudget(self, st, sentence) ==
  /\ st.current_tokens + count_tokens(self.tokenizer, sentence.text) > self.max_tokens
  /\ st.current_sentences # << >>

\* A variant of FlushLast that returns without the pending sentences.
FlushLast_ForgetsLast(self, st, section_header) == st.chunks

\* After the loop: "Don't forget the last chunk" (lines 205-213).
FlushLast(self, st, section_header) ==
  IF st.current_sentences # << >>
  THEN Append(st.chunks,
              _create_chunk(self, st.current_sentences, section_header,
                            Len(st.chunks)))
  ELSE st.chunks

(***************************************************************************)
(* PlainTextParser (parsers/plaintext.py)                                  *)
(***************************************************************************)

ParaSep == <<"\n", "\n">>

\* text.split("\n\n") from offset i, the current piece starting at offset a.
RECURSIVE SplitFrom(_, _, _)
SplitFrom(s, a, i) ==
  IF i + 2 > Len(s) THEN <<Slice(s, a, Len(s))>>
  ELSE IF Slice(s, i, i + 2) = ParaSep
       THEN <<Slice(s, a, i)>> \o SplitFrom(s, i + 2, i + 2)
       ELSE SplitFrom(s, a, i + 1)

SplitParagraphs(s) == SplitFrom(s, 0, 0)

\* text.find(sub, start): the first offset >= start where sub occurs, or -1.
RECURSIVE Find(_, _, _)
Find(s, sub, start) ==
  IF start + Len(sub) > Len(s) THEN -1
  ELSE IF Slice(s, start, start + Len(sub)) = sub THEN start
  ELSE Find(s, sub, start + 1)

DocumentElement(content, position) ==
  [type |-> "paragraph", content |-> content, position |-> position,
   section_header |-> None]

\* The loop of PlainTextParser.parse over paragraphs[n..].
RECURSIVE ParagraphElements(_, _, _, _)
ParagraphElements(text, paragraphs, n, position) ==
  IF n > Len(paragraphs) THEN << >>
  ELSE LET para  == Strip(paragraphs[n])
           found == Find(text, para, position)
           start == IF found = -1 THEN position ELSE found
           end   == start + Len(para)
       IN  IF para # << >>
           THEN <<DocumentElement(para, <<start, end>>)>>
                  \o ParagraphElements(text, paragraphs, n + 1, end)
           ELSE ParagraphElements(text, paragraphs, n + 1, position)

\* PlainTextParser(split_paragraphs=True).parse(text).elements
PlainTextParse(text) ==
  IF IsBlank(text) THEN << >>
  ELSE ParagraphElements(text, SplitParagraphs(text), 1, 0)

\* The "Update indices" pass of ChunkyMonkey._chunk_with_parser.
Reindexed(all_chunks, source) ==
  [i \in 1..Len(all_chunks) |->
     Chunk(all_chunks[i].text,
           with_update(all_chunks[i].metadata,
                       [chunk_index  |-> i - 1,
                        total_chunks |-> Len(all_chunks),
                        source       |-> source]),
           all_chunks[i].token_counts)]

(***************************************************************************)
(* Inputs of the model                                                     *)
(***************************************************************************)

\* Smallest and largest max_tokens, largest overlap_tokens, and the number
\* of pieces a document is made of.
MinBudget == 0 - 1
MaxTokens == 4
MaxOverlap == 2
MaxPieces == 2

\* "A! "   "B e?" and a paragraph break   a fenced code block   blanks
Pieces ==
  { <<"A", "!", " ">>,
    <<"B", " ", "e", "?", "\n", "\n">>,
    Fence \o <<"\n", "x", "\n">> \o Fence \o <<"\n">>,
    <<" ", " ">> }

\* All concatenations of n elements of the set `pieces`.
RECURSIVE Concats(_, _)
Concats(pieces, n) ==
  IF n = 0 THEN {<< >>} ELSE {p \o t : p \in pieces, t \in Concats(pieces, n - 1)}

Texts == UNION {Concats(Pieces, n) : n \in 0..MaxPieces}

Tokenizers == {CharacterTokenizer(1, 1), CharacterTokenizer(1, 2), WordTokenizer}

Sources == {None, "a.txt"}

TextChunker(max_tokens, overlap_tokens, tokenizer, preserve_code_blocks, source) ==
  [max_tokens           |-> max_tokens,
   overlap_tokens       |-> overlap_tokens,
   tokenizer            |-> tokenizer,
   preserve_code_blocks |-> preserve_code_blocks,
   source               |-> source]

(***************************************************************************)
(* State                                                                   *)
(***************************************************************************)

VARIABLES
  self,              \* the TextChunker's fields
  parser,            \* ChunkyMonkey.parser: None or "plaintext"
  pc,                \* position of the running call
  doc,               \* the text passed to the running front-end call
  elements,          \* parsed.elements of _chunk_with_parser
  elem_idx,          \* number of elements already chunked
  all_chunks,        \* all_chunks of _chunk_with_parser
  text,              \* argument of the running TextChunker.chunk call
  section_header,    \* its section_header argument
  sentences,         \* the (restored) sentences being grouped
  idx,               \* number of sentences already processed by the loop
  chunks,            \* chunks of _group_sentences_into_chunks
  current_sentences, \* the accumulator
  current_tokens,    \* its running token total
  result,            \* value returned by the last TextChunker.chunk call
  out,               \* value returned by the front-end call
  tokenizer_called,  \* history: the tokenizer was invoked during the call
  emitted,           \* history, parallel to chunks: how each chunk was made
  history,           \* history: the completed calls [text, self, out]
  id_in,             \* the (text, position) arguments of _generate_chunk_id
  id_out,            \* the hashed strings and ids computed from id_in
  validate,          \* ChunkyMonkey.validate
  warned,            \* the violations _validate_chunks passed to warnings.warn
  threads,           \* the calls running concurrently on one TextChunker
  val_in,            \* the arguments of a validator call
  val_out,           \* what the validator call returned
  heap,              \* the dict objects ChunkMetadata.custom fields refer to
  metas,             \* the ChunkMetadata objects of a with_update call
  md                 \* the locals of a MarkdownParser.parse call

vars ==
  <<self, parser, pc, doc, elements, elem_idx, all_chunks, text, section_header,
    sentences, idx, chunks, current_sentences, current_tokens, result, out,
    tokenizer_called, emitted, history, id_in, id_out, validate, warned,
    threads, val_in, val_out, heap, metas, md>>

\* The variables of one TextChunker.chunk call.
callVars ==
  <<text, section_header, sentences, idx, chunks, current_sentences,
    current_tokens, result, emitted>>

\* The variables of the front end (ChunkyMonkey).
frontVars == <<doc, elements, elem_idx, all_chunks, out, warned>>

\* The variables only the validators, the concurrent calls and with_update
\* touch, with the ChunkyMonkey.validate flag, which no call writes.
sideVars == <<validate, threads, val_in, val_out, heap, metas, md>>

\* The variables no chunking call touches.
otherVars == <<history, id_in, id_out, sideVars>>

\* No call has run yet.
NoCall ==
  /\ doc = << >>
  /\ elements = << >>
  /\ elem_idx = 0
  /\ all_chunks = << >>
  /\ text = << >>
  /\ section_header = None
  /\ sentences = << >>
  /\ idx = 0
  /\ chunks = << >>
  /\ current_sentences = << >>
  /\ current_tokens = 0
  /\ result = << >>
  /\ out = << >>
  /\ tokenizer_called = FALSE
  /\ emitted = << >>
  /\ history = << >>
  /\ warned = << >>

\* No validator, concurrent call or with_update has run; validation is off.
NoSide ==
  /\ validate = FALSE
  /\ threads = << >>
  /\ val_in = << >>
  /\ val_out = << >>
  /\ heap = << >>
  /\ metas = << >>
  /\ md = << >>

\* TextChunker(...) / ChunkyMonkey(...): no argument is validated.
Init ==
  /\ self \in {TextChunker(m, o, t, p, s) :
                 m \in MinBudget..MaxTokens, o \in 0..MaxOverlap,
                 t \in Tokenizers, p \in BOOLEAN, s \in Sources}
  /\ parser \in {None, "plaintext"}
  /\ pc = "idle"
  /\ NoCall
  /\ NoSide
  /\ id_in = << >>
  /\ id_out = << >>

(***************************************************************************)
(* Operations                                                              *)
(***************************************************************************)

\* A variant of EnterChunk in which the chunk list outlives the call (a list
\* kept on the object instead of a local of _group_sentences_into_chunks).
EnterChunk_KeepsChunks(t, header) ==
  /\ text' = t
  /\ section_header' = header
  /\ idx' = 0
  /\ chunks' = chunks
  /\ emitted' = emitted
  /\ current_sentences' = << >>
  /\ current_tokens' = 0
  /\ IF IsBlank(t)
     THEN /\ sentences' = << >>
          /\ result' = << >>
          /\ pc' = "returned"
     ELSE /\ sentences' = PreparedSentences(self, t)
          /\ result' = result
          /\ pc' = "group"

\* Entry of TextChunker.chunk(t, header): the blank check, then protect,
\* segment and restore; the grouping loop follows step by step.
EnterChunk(t, header) ==
  /\ text' = t
  /\ section_header' = header
  /\ idx' = 0
  /\ chunks' = << >>
  /\ emitted' = << >>
  /\ current_sentences' = << >>
  /\ current_tokens' = 0
  /\ IF IsBlank(t)
     THEN /\ sentences' = << >>
          /\ result' = << >>
          /\ pc' = "returned"
     ELSE /\ sentences' = PreparedSentences(self, t)
          /\ result' = result
          /\ pc' = "group"

\* TextChunker.chunk(t), also reached through ChunkyMonkey.chunk(t) without a
\* parser and through chunk(t, ...).
CallChunk(t) ==
  /\ pc = "idle"
  /\ parser = None
  /\ doc' = t
  /\ tokenizer_called' = FALSE
  /\ EnterChunk(t, None)
  /\ UNCHANGED <<self, parser, elements, elem_idx, all_chunks, out, warned>>
  /\ UNCHANGED otherVars

\* ChunkyMonkey.chunk(t) with a parser: _chunk_with_parser parses the text.
CallChunkWithParser(t) ==
  /\ pc = "idle"
  /\ parser # None
  /\ doc' = t
  /\ tokenizer_called' = FALSE
  /\ elements' = PlainTextParse(t)
  /\ elem_idx' = 0
  /\ all_chunks' = << >>
  /\ pc' = "elements"
  /\ UNCHANGED <<self, parser, out, warned>>
  /\ UNCHANGED callVars
  /\ UNCHANGED otherVars

\* A variant of ChunkElement that passes no section header to the chunker.
ChunkElement_NoHeader ==
  /\ pc = "elements"
  /\ elem_idx < Len(elements)
  /\ EnterChunk(elements[elem_idx + 1].content, None)
  /\ UNCHANGED <<self, parser, tokenizer_called>>
  /\ UNCHANGED frontVars
  /\ UNCHANGED otherVars

\* for element in parsed.elements: self._chunker.chunk(element.content, header)
ChunkElement ==
  /\ pc = "elements"
  /\ elem_idx < Len(elements)
  /\ EnterChunk(elements[elem_idx + 1].content, elements[elem_idx + 1].section_header)
  /\ UNCHANGED <<self, parser, tokenizer_called>>
  /\ UNCHANGED frontVars
  /\ UNCHANGED otherVars

GroupState ==
  [chunks            |-> chunks,
   current_sentences |-> current_sentences,
   current_tokens    |-> current_tokens]

SetGroupState(st) ==
  /\ chunks' = st.chunks
  /\ current_sentences' = st.current_sentences
  /\ current_tokens' = st.current_tokens

\* Entries of the history variable `emitted`.
FromSentences(sents) == [hard |-> FALSE, sentences |-> sents]
FromHardSplit(sentence) == [hard |-> TRUE, sentences |-> <<sentence>>]

\* Loop iteration on a sentence whose token count exceeds max_tokens.
GroupOversized ==
  /\ pc = "group"
  /\ idx < Len(sentences)
  /\ LET sentence == sentences[idx + 1]
         flushed  == IF current_sentences # << >>
                     THEN Append(emitted, FromSentences(current_sentences))
                     ELSE emitted
         pieces   == _hard_split(self.tokenizer, sentence.text, self.max_tokens)
     IN  /\ IsOversized(self, sentence)
         /\ IF HardSplitRaises(self.tokenizer, sentence.text, self.max_tokens)
            THEN /\ pc' = "raised"
                 /\ UNCHANGED <<chunks, current_sentences, current_tokens, emitted, idx>>
            ELSE /\ SetGroupState(OversizedStep(self, GroupState, sentence,
                                                section_header))
                 /\ emitted' = flushed \o
                                 [k \in 1..Len(pieces) |-> FromHardSplit(sentence)]
                 /\ idx' = idx + 1
                 /\ pc' = "group"
  /\ tokenizer_called' = TRUE
  /\ UNCHANGED <<self, parser, text, section_header, sentences, result>>
  /\ UNCHANGED frontVars
  /\ UNCHANGED otherVars

\* Loop iteration that closes the current chunk and seeds the next one.
GroupEmit ==
  /\ pc = "group"
  /\ idx < Len(sentences)
  /\ LET sentence == sentences[idx + 1]
     IN  /\ ~IsOversized(self, sentence)
         /\ ExceedsBudget(self, GroupState, sentence)
         /\ SetGroupState(EmitStep(self, GroupState, sentence, section_header))
  /\ emitted' = Append(emitted, FromSentences(current_sentences))
  /\ idx' = idx + 1
  /\ tokenizer_called' = TRUE
  /\ UNCHANGED <<self, parser, pc, text, section_header, sentences, result>>
  /\ UNCHANGED frontVars
  /\ UNCHANGED otherVars

\* Loop iteration that only adds the sentence to the accumulator.
GroupAppend ==
  /\ pc = "group"
  /\ idx < Len(sentences)
  /\ LET sentence == sentences[idx + 1]
     IN  /\ ~IsOversized(self, sentence)
         /\ ~ExceedsBudget(self, GroupState, sentence)
         /\ SetGroupState(AppendStep(self, GroupState, sentence))
  /\ idx' = idx + 1
  /\ tokenizer_called' = TRUE
  /\ UNCHANGED <<self, parser, pc, text, section_header, sentences, result,
                 emitted>>
  /\ UNCHANGED frontVars
  /\ UNCHANGED otherVars

\* After the loop: flush the last chunk and return to chunk().
GroupFlush ==
  /\ pc = "group"
  /\ idx = Len(sentences)
  /\ chunks' = FlushLast(self, GroupState, section_header)
  /\ IF current_sentences # << >>
     THEN /\ emitted' = Append(emitted, FromSentences(current_sentences))
          /\ tokenizer_called' = TRUE
     ELSE UNCHANGED <<emitted, tokenizer_called>>
  /\ pc' = "finalize"
  /\ UNCHANGED <<self, parser, text, section_header, sentences, idx,
                 current_sentences, current_tokens, result>>
  /\ UNCHANGED frontVars
  /\ UNCHANGED otherVars

\* TextChunker.chunk: rewrite total_chunks on every chunk and return.
Finalize ==
  /\ pc = "finalize"
  /\ result' = FinalChunks(chunks)
  /\ pc' = "returned"
  /\ UNCHANGED <<self, parser, text, section_header, sentences, idx, chunks,
                 current_sentences, current_tokens, tokenizer_called, emitted>>
  /\ UNCHANGED frontVars
  /\ UNCHANGED otherVars

\* The front end without a parser returns the chunker's chunks.
Return ==
  /\ pc = "returned"
  /\ parser = None
  /\ LET v == _validate_chunks(validate, self, result)
     IN  /\ out' = v.chunks
         /\ warned' = v.warned
  /\ tokenizer_called' = (tokenizer_called \/ (validate /\ result # << >>))
  /\ pc' = "done"
  /\ UNCHANGED <<self, parser, doc, elements, elem_idx, all_chunks>>
  /\ UNCHANGED callVars
  /\ UNCHANGED otherVars

\* all_chunks.extend(element_chunks)
ElementDone ==
  /\ pc = "returned"
  /\ parser # None
  /\ all_chunks' = all_chunks \o result
  /\ elem_idx' = elem_idx + 1
  /\ pc' = "elements"
  /\ UNCHANGED <<self, parser, doc, elements, out, warned, tokenizer_called>>
  /\ UNCHANGED callVars
  /\ UNCHANGED otherVars

\* _chunk_with_parser: "Update indices", validation and return.
ReturnReindexed ==
  /\ pc = "elements"
  /\ elem_idx = Len(elements)
  /\ LET final_chunks == Reindexed(all_chunks, self.source)
         v            == _validate_chunks(validate, self, final_chunks)
     IN  /\ out' = v.chunks
         /\ warned' = v.warned
  /\ tokenizer_called' = (tokenizer_called \/ (validate /\ all_chunks # << >>))
  /\ pc' = "done"
  /\ UNCHANGED <<self, parser, doc, elements, elem_idx, all_chunks>>
  /\ UNCHANGED callVars
  /\ UNCHANGED otherVars

\* The steps of a running call.
CallSteps ==
  \/ ChunkElement
  \/ GroupOversized
  \/ GroupEmit
  \/ GroupAppend
  \/ GroupFlush
  \/ Finalize
  \/ Return
  \/ ElementDone
  \/ ReturnReindexed

Next ==
  \/ \E t \in Texts : CallChunk(t)
  \/ \E t \in Texts : CallChunkWithParser(t)
  \/ CallSteps

Spec == Init /\ [][Next]_vars

(***************************************************************************)
(* segment_sentences on its own, over every short text of a small alphabet *)
(***************************************************************************)

MaxSegLen == 5

\* An initial, an abbreviation letter, the two kinds of terminator, a blank
\* and a digit.
SegAlphabet == {<<"A">>, <<"m">>, <<".">>, <<"?">>, <<" ">>, <<"1">>}

SegTexts == UNION {Concats(SegAlphabet, n) : n \in 0..MaxSegLen}

\* The text is one of SegTexts or one of the examples
\*   "Mr. Smith went home. He was tired."   "DR. Who? Me."
\*   "It is max. Or min! No."
InitSeg ==
  /\ self = TextChunker(MaxTokens, 0, CharacterTokenizer(1, 1), TRUE, None)
  /\ parser = None
  /\ pc = "segment"
  /\ text \in SegTexts \cup
       { <<"M", "r", ".", " ", "S", "m", "i", "t", "h", " ", "w", "e", "n", "t", " ", "h", "o", "m", "e", ".", " ", "H", "e", " ", "w", "a", "s", " ", "t", "i", "r", "e", "d", ".">>,
         <<"D", "R", ".", " ", "W", "h", "o", "?", " ", "M", "e", ".">>,
         <<"I", "t", " ", "i", "s", " ", "m", "a", "x", ".", " ", "O", "r", " ", "m", "i", "n", "!", " ", "N", "o", ".">> }
  /\ doc = << >>
  /\ elements = << >>
  /\ elem_idx = 0
  /\ all_chunks = << >>
  /\ section_header = None
  /\ sentences = << >>
  /\ idx = 0
  /\ chunks = << >>
  /\ current_sentences = << >>
  /\ current_tokens = 0
  /\ result = << >>
  /\ out = << >>
  /\ warned = << >>
  /\ tokenizer_called = FALSE
  /\ emitted = << >>
  /\ history = << >>
  /\ id_in = << >>
  /\ id_out = << >>
  /\ NoSide

\* segment_sentences(text)
Segment ==
  /\ pc = "segment"
  /\ sentences' = segment_sentences(text)
  /\ pc' = "segmented"
  /\ UNCHANGED <<self, parser, text, section_header, idx, chunks,
                 current_sentences, current_tokens, result, emitted,
                 tokenizer_called>>
  /\ UNCHANGED frontVars
  /\ UNCHANGED otherVars

NextSeg == Segment

SpecSeg == InitSeg /\ [][NextSeg]_vars

(***************************************************************************)
(* _generate_chunk_id on pairs of arguments                                *)
(***************************************************************************)

MaxIdPieces == 2

\* "a"   "|"   "|None"   "|(0, 1)"
IdPieces ==
  { <<"a">>,
    <<"|">>,
    <<"|", "N", "o", "n", "e">>,
    <<"|", "(", "0", ",", " ", "1", ")">> }

IdTexts == UNION {Concats(IdPieces, n) : n \in 0..MaxIdPieces}

IdPositions == {None, <<0, 1>>, <<0, 11>>, <<1, 1>>, <<10, 1>>}

IdArgs == [text : IdTexts, position : IdPositions]

InitId ==
  /\ self = TextChunker(MaxTokens, 0, CharacterTokenizer(1, 1), TRUE, None)
  /\ parser = None
  /\ pc = "hash"
  /\ NoCall
  /\ NoSide
  /\ \E a \in IdArgs, b \in IdArgs : id_in = <<a, b>>
  /\ id_out = << >>

\* _generate_chunk_id on each of the two argument pairs of id_in, with the
\* strings that were hashed.
GenerateIds ==
  /\ pc = "hash"
  /\ id_out' = [k \in 1..2 |->
                  [content  |-> ChunkIdContent(id_in[k].text, id_in[k].position),
                   chunk_id |-> _generate_chunk_id(id_in[k].text,
                                                   id_in[k].position)]]
  /\ pc' = "hashed"
  /\ UNCHANGED <<self, parser, tokenizer_called, history, id_in>>
  /\ UNCHANGED callVars
  /\ UNCHANGED frontVars
  /\ UNCHANGED sideVars

NextId == GenerateIds

SpecId == InitId /\ [][NextId]_vars

(***************************************************************************)
(* Several calls, one after the other, on one TextChunker                  *)
(***************************************************************************)

MaxCalls == 3

\* ""   "A! A! "   "B e?" and a paragraph break
CallTexts ==
  { << >>,
    <<"A", "!", " ", "A", "!", " ">>,
    <<"B", " ", "e", "?", "\n", "\n">> }

Paths == {"a.txt"}

InitCalls ==
  /\ self \in {TextChunker(m, o, t, p, s) :
                 m \in {1, MaxTokens}, o \in {0, MaxOverlap},
                 t \in Tokenizers, p \in {TRUE}, s \in Sources}
  /\ parser = None
  /\ pc = "idle"
  /\ NoCall
  /\ NoSide
  /\ id_in = << >>
  /\ id_out = << >>

\* TextChunker.chunk_file(path): read the file (its content is t), set
\* self.source and chunk the text.
CallChunkFile(path, t) ==
  /\ pc = "idle"
  /\ parser = None
  /\ self' = [self EXCEPT !.source = path]
  /\ doc' = t
  /\ tokenizer_called' = FALSE
  /\ EnterChunk(t, None)
  /\ UNCHANGED <<parser, elements, elem_idx, all_chunks, out, warned>>
  /\ UNCHANGED otherVars

\* The call has returned to its caller, who may call again.
CallReturned ==
  /\ pc = "done"
  /\ Len(history) + 1 < MaxCalls
  /\ history' = Append(history, [text |-> doc, self |-> self, out |-> out])
  /\ pc' = "idle"
  /\ UNCHANGED <<self, parser, tokenizer_called, id_in, id_out>>
  /\ UNCHANGED callVars
  /\ UNCHANGED frontVars
  /\ UNCHANGED sideVars

NextCalls ==
  \/ \E t \in CallTexts : CallChunk(t)
  \/ \E p \in Paths, t \in CallTexts : CallChunkFile(p, t)
  \/ CallReturned
  \/ GroupOversized
  \/ GroupEmit
  \/ GroupAppend
  \/ GroupFlush
  \/ Finalize
  \/ Return

SpecCalls == InitCalls /\ [][NextCalls]_vars

(***************************************************************************)
(* The validators on given chunk lists                                     *)
(***************************************************************************)

MaxValChunks == 2

\* The arguments of one validator call. The chunk lists are those of up to
\* MaxValChunks chunks with the texts
\*   ""   "He ran."   "as noted see above"   "It. As Shown"   "x"   "has noted"
\* the chunk at 0-based index i at position (i, i + len(text)); the originals
\* are   ""   " \n"   "ab"   "He ran. x".
InitVal ==
  LET ValTexts ==
        { <<>>,
          <<"H", "e", " ", "r", "a", "n", ".">>,
          <<"a", "s", " ", "n", "o", "t", "e", "d", " ", "s", "e", "e", " ", "a", "b", "o", "v", "e">>,
          <<"I", "t", ".", " ", "A", "s", " ", "S", "h", "o", "w", "n">>,
          <<"x">>,
          <<"h", "a", "s", " ", "n", "o", "t", "e", "d">> }
      ValOriginals ==
        { <<>>,
          <<" ", "\n">>,
          <<"a", "b">>,
          <<"H", "e", " ", "r", "a", "n", ".", " ", "x">> }
      lists[n \in 0..MaxValChunks] ==
        IF n = 0 THEN {<< >>}
        ELSE lists[n - 1] \cup
             {Append(cs, Chunk(t, ChunkMetadata(None,
                                                <<Len(cs), Len(cs) + Len(t)>>,
                                                None, Len(cs)),
                               TokenCounts(CharacterTokenizer(1, 1), t))) :
                cs \in {c \in lists[n - 1] : Len(c) = n - 1}, t \in ValTexts}
  IN
  /\ self = TextChunker(MaxTokens, 0, CharacterTokenizer(1, 1), TRUE, None)
  /\ parser = None
  /\ pc = "validate"
  /\ NoCall
  /\ validate = FALSE
  /\ threads = << >>
  /\ heap = << >>
  /\ metas = << >>
  /\ md = << >>
  /\ history = << >>
  /\ id_in = << >>
  /\ id_out = << >>
  /\ val_out = << >>
  /\ \E cs \in lists[MaxValChunks] :
       \/ \E m \in {1, 9}, t \in Tokenizers :
            val_in = [fn |-> "validate_token_limits", chunks |-> cs,
                      max_tokens |-> m, tokenizer |-> t]
       \/ \E o \in ValOriginals, tol \in {<<95, 100>>, <<1, 2>>}, a \in BOOLEAN :
            val_in = [fn |-> "validate_roundtrip", chunks |-> cs,
                      original |-> o, tolerance |-> tol, overlap_aware |-> a]
       \/ val_in = [fn |-> "flag_dangling_references", chunks |-> cs]
       \/ \E o \in {None, <<"a", "b">>},
             l \in {<< >>, <<1, CharacterTokenizer(1, 1)>>},
             r \in BOOLEAN :
            val_in = [fn |-> "validate_chunks", chunks |-> cs, original |-> o,
                      max_tokens |-> SubSeq(l, 1, Min(1, Len(l))),
                      tokenizer |-> SubSeq(l, 2, Len(l)),
                      check_references |-> r]

\* The call has returned `findings`; the chunk list the caller passed is the
\* list it still holds.
Validated(findings) ==
  /\ val_out' = [result |-> findings, chunks |-> val_in.chunks]
  /\ pc' = "validated"
  /\ UNCHANGED <<self, parser, tokenizer_called, history, id_in, id_out,
                 validate, threads, val_in, heap, metas, md>>
  /\ UNCHANGED callVars
  /\ UNCHANGED frontVars

CallValidateTokenLimits ==
  /\ pc = "validate"
  /\ val_in.fn = "validate_token_limits"
  /\ Validated(validate_token_limits(val_in.chunks, val_in.max_tokens,
                                     val_in.tokenizer))

CallValidateRoundtrip ==
  /\ pc = "validate"
  /\ val_in.fn = "validate_roundtrip"
  /\ Validated(validate_roundtrip(val_in.original, val_in.chunks,
                                  val_in.tolerance[1], val_in.tolerance[2],
                                  val_in.overlap_aware))

CallFlagDanglingReferences ==
  /\ pc = "validate"
  /\ val_in.fn = "flag_dangling_references"
  /\ Validated(flag_dangling_references(val_in.chunks))

CallValidateChunks ==
  /\ pc = "validate"
  /\ val_in.fn = "validate_chunks"
  /\ Validated(validate_chunks(val_in.chunks, val_in.original,
                               val_in.max_tokens, val_in.tokenizer,
                               val_in.check_references))

NextVal ==
  \/ CallValidateTokenLimits
  \/ CallValidateRoundtrip
  \/ CallFlagDanglingReferences
  \/ CallValidateChunks

SpecVal == InitVal /\ [][NextVal]_vars

(***************************************************************************)
(* One ChunkyMonkey.chunk call: validation, a parser that returns elements *)
(* with section headers, and a tokenizer that may raise                    *)
(***************************************************************************)

MaxElements == 2

\* ChunkyMonkey(tokenizer, max_tokens, overlap_tokens, validate, parser): the
\* parser, if any, is one whose parse() returns the elements drawn in
\* CallChunkWithElements.
InitPipe ==
  /\ self \in {TextChunker(m, o, t, TRUE, s) :
                 m \in {1, MaxTokens}, o \in {0, MaxOverlap},
                 t \in {CharacterTokenizer(1, 1), WordTokenizer}, s \in Sources}
  /\ parser \in {None, "elements"}
  /\ pc = "idle"
  /\ NoCall
  /\ validate \in BOOLEAN
  /\ threads = << >>
  /\ val_in = << >>
  /\ val_out = << >>
  /\ heap = << >>
  /\ metas = << >>
  /\ md = << >>
  /\ id_in = << >>
  /\ id_out = << >>

\* ChunkyMonkey.chunk(t) with a parser: parsed.elements is els.
CallChunkWithElements(t, els) ==
  /\ pc = "idle"
  /\ parser # None
  /\ doc' = t
  /\ tokenizer_called' = FALSE
  /\ elements' = els
  /\ elem_idx' = 0
  /\ all_chunks' = << >>
  /\ pc' = "elements"
  /\ UNCHANGED <<self, parser, out, warned>>
  /\ UNCHANGED callVars
  /\ UNCHANGED otherVars

\* A variant of TokenizerRaises in which the call swallows the exception and
\* returns the chunks made so far.
TokenizerRaises_ReturnsPartial ==
  /\ \/ pc = "group" /\ (idx < Len(sentences) \/ current_sentences # << >>)
     \/ pc = "returned" /\ parser = None /\ validate /\ result # << >>
     \/ pc = "elements" /\ elem_idx = Len(elements) /\ validate
                        /\ all_chunks # << >>
  /\ pc' = "done"
  /\ out' = all_chunks \o chunks
  /\ tokenizer_called' = TRUE
  /\ UNCHANGED <<self, parser, doc, elements, elem_idx, all_chunks, warned>>
  /\ UNCHANGED callVars
  /\ UNCHANGED otherVars

\* A count_tokens, encode or decode call of the running chunk call raises:
\* in the grouping loop (lines 158, 183, 199, 225) and in _create_chunk
\* (line 254) while a sentence or the accumulator is left, in _hard_split,
\* or in _validate_chunks on a non-empty result. Nothing catches it.
TokenizerRaises ==
  /\ \/ pc = "group" /\ (idx < Len(sentences) \/ current_sentences # << >>)
     \/ pc = "returned" /\ parser = None /\ validate /\ result # << >>
     \/ pc = "elements" /\ elem_idx = Len(elements) /\ validate
                        /\ all_chunks # << >>
  /\ pc' = "failed"
  /\ tokenizer_called' = TRUE
  /\ UNCHANGED <<self, parser>>
  /\ UNCHANGED callVars
  /\ UNCHANGED frontVars
  /\ UNCHANGED otherVars

\* The caller passes the returned chunks to validate_chunks.
ValidateResult ==
  /\ pc = "done"
  /\ val_in' = [fn |-> "validate_chunks", chunks |-> out, original |-> doc,
                max_tokens |-> <<self.max_tokens>>,
                tokenizer |-> <<self.tokenizer>>, check_references |-> TRUE]
  /\ val_out' = [result |-> validate_chunks(out, doc, <<self.max_tokens>>,
                                            <<self.tokenizer>>, TRUE),
                 chunks |-> out]
  /\ pc' = "validated"
  /\ UNCHANGED <<self, parser, tokenizer_called, history, id_in, id_out,
                 validate, threads, heap, metas, md>>
  /\ UNCHANGED callVars
  /\ UNCHANGED frontVars

\* The documents are "", "A! A! ", "A! A! A! A! ", "A! B e? A! " and "B e?", a
\* paragraph break, "A! "; the elements have the contents "A! ", "A! B e?" and "  " and the
\* section headers None and "Intro > Setup".
NextPipe ==
  \/ \E t \in {<< >>,
               <<"A", "!", " ", "A", "!", " ">>,
               <<"A", "!", " ", "A", "!", " ", "A", "!", " ", "A", "!", " ">>,
               <<"A", "!", " ", "B", " ", "e", "?", " ", "A", "!", " ">>,
               <<"B", " ", "e", "?", "\n", "\n", "A", "!", " ">>} :
       CallChunk(t)
  \/ \E n \in 0..MaxElements :
       /\ pc = "idle"
       /\ \E els \in [1..n ->
                     {[DocumentElement(c, <<0, Len(c)>>) EXCEPT !.section_header = h] :
                        c \in {<<"A", "!", " ">>,
                               <<"A", "!", " ", "B", " ", "e", "?">>,
                               <<" ", " ">>},
                        h \in {None, "Intro > Setup"}}] :
            CallChunkWithElements(
              Join(ParaSep, [i \in 1..n |-> els[i].content]), els)
  \/ CallSteps
  \/ TokenizerRaises
  \/ ValidateResult

SpecPipe == InitPipe /\ [][NextPipe]_vars

(***************************************************************************)
(* Calls that run concurrently on one TextChunker                          *)
(***************************************************************************)

MaxThreads == 2

\* One TextChunker shared by MaxThreads callers, none of them in a call.
\* A thread's record holds the locals of its call: `source` is self.source
\* as the call set or found it on entry.
InitThreads ==
  /\ self \in {TextChunker(MaxTokens, o, CharacterTokenizer(1, 1), TRUE, None) :
                 o \in {0, MaxOverlap}}
  /\ parser = None
  /\ pc = "threads"
  /\ NoCall
  /\ validate = FALSE
  /\ threads = [t \in 1..MaxThreads |->
                  [pc |-> "idle", source |-> None, text |-> << >>,
                   sentences |-> << >>, idx |-> 0,
                   st |-> [chunks |-> << >>, current_sentences |-> << >>,
                           current_tokens |-> 0],
                   result |-> << >>]]
  /\ val_in = << >>
  /\ val_out = << >>
  /\ heap = << >>
  /\ metas = << >>
  /\ md = << >>
  /\ id_in = << >>
  /\ id_out = << >>

\* Thread t enters TextChunker.chunk(txt): the blank check, then protect,
\* segment and restore, with self.source as it is now.
ThreadEnterChunk(t, txt, source) ==
  threads' = [threads EXCEPT ![t] =
                [pc        |-> IF IsBlank(txt) THEN "done" ELSE "group",
                 source    |-> source,
                 text      |-> txt,
                 sentences |-> IF IsBlank(txt) THEN << >>
                               ELSE PreparedSentences(self, txt),
                 idx       |-> 0,
                 st        |-> [chunks |-> << >>, current_sentences |-> << >>,
                                current_tokens |-> 0],
                 result    |-> << >>]]

\* Thread t calls chunk_file(path) on the shared object: it reads the file
\* (its content is txt), assigns self.source and calls self.chunk(text).
ThreadCallChunkFile(t, path, txt) ==
  /\ threads[t].pc = "idle"
  /\ self' = [self EXCEPT !.source = path]
  /\ ThreadEnterChunk(t, txt, path)
  /\ UNCHANGED <<parser, pc, tokenizer_called, history, id_in, id_out,
                 validate, val_in, val_out, heap, metas, md>>
  /\ UNCHANGED callVars
  /\ UNCHANGED frontVars

\* Thread t calls chunk(txt) on the shared object.
ThreadCallChunk(t, txt) ==
  /\ threads[t].pc = "idle"
  /\ ThreadEnterChunk(t, txt, self.source)
  /\ UNCHANGED <<self, parser, pc, tokenizer_called, history, id_in, id_out,
                 validate, val_in, val_out, heap, metas, md>>
  /\ UNCHANGED callVars
  /\ UNCHANGED frontVars

\* One iteration of thread t's grouping loop, or after the loop its last
\* flush, the total_chunks pass and the return. Every chunk made here reads
\* self.source (lines 178 and 249) at the time it is made.
ThreadStep(t) ==
  /\ threads[t].pc = "group"
  /\ LET th       == threads[t]
         sentence == th.sentences[th.idx + 1]
     IN  threads' = [threads EXCEPT ![t] =
           IF th.idx = Len(th.sentences)
           THEN [th EXCEPT !.pc = "done",
                           !.result = FinalChunks(FlushLast(self, th.st, None))]
           ELSE [th EXCEPT !.idx = th.idx + 1,
                           !.st = IF IsOversized(self, sentence)
                                  THEN OversizedStep(self, th.st, sentence, None)
                                  ELSE IF ExceedsBudget(self, th.st, sentence)
                                  THEN EmitStep(self, th.st, sentence, None)
                                  ELSE AppendStep(self, th.st, sentence)]]
  /\ UNCHANGED <<self, parser, pc, tokenizer_called, history, id_in, id_out,
                 validate, val_in, val_out, heap, metas, md>>
  /\ UNCHANGED callVars
  /\ UNCHANGED frontVars

\* The texts are "A! " and "A! B e?", the paths "a.txt" and "b.txt".
NextThreads ==
  \E t \in 1..MaxThreads :
    \/ \E p \in {"a.txt", "b.txt"},
          txt \in {<<"A", "!", " ">>, <<"A", "!", " ", "B", " ", "e", "?">>} :
         ThreadCallChunkFile(t, p, txt)
    \/ \E txt \in {<<"A", "!", " ">>, <<"A", "!", " ", "B", " ", "e", "?">>} :
         ThreadCallChunk(t, txt)
    \/ ThreadStep(t)

SpecThreads == InitThreads /\ [][NextThreads]_vars

(***************************************************************************)
(* ChunkMetadata.with_update on objects: the custom dicts live on a heap   *)
(***************************************************************************)

MaxCustomKeys == 2

\* A ChunkMetadata whose custom field refers to the dict at heap address 1.
\* `metas` keeps the object, a copy of its fields and of the items of its
\* custom dict taken before the call (before), the dicts as they were when the call returned (returned) and,
\* after the call, the keyword arguments and the new object.
InitMeta ==
  /\ self = TextChunker(MaxTokens, 0, CharacterTokenizer(1, 1), TRUE, None)
  /\ parser = None
  /\ pc = "meta"
  /\ NoCall
  /\ md = << >>
  /\ validate = FALSE
  /\ threads = << >>
  /\ val_in = << >>
  /\ val_out = << >>
  /\ id_in = << >>
  /\ id_out = << >>
  /\ \E d \in UNION {[ks -> {1, 2}] : ks \in SUBSET (1..MaxCustomKeys)} :
       heap = <<d>>
  /\ \E s \in Sources, p \in {None, <<0, 3>>}, h \in {None, "Intro"} :
       LET original == [ChunkMetadata(s, p, h, 0) EXCEPT !.custom = 1]
       IN  metas = [original |-> original,
                    before |-> [original EXCEPT !.custom = heap[1]],
                    returned |-> << >>, changes |-> << >>, updated |-> << >>]

\* A variant of WithUpdate whose asdict copies the fields without copying
\* the custom dict.
WithUpdate_SharesCustom(changes, given) ==
  /\ pc = "meta"
  /\ LET kwargs  == IF given = << >> THEN changes
                    ELSE [f \in DOMAIN changes \cup {"custom"} |->
                            IF f = "custom" THEN Len(heap) + 1 ELSE changes[f]]
         current == metas.original
         heap1   == heap \o given
     IN  /\ heap' = heap1
         /\ metas' = [metas EXCEPT !.changes = kwargs,
                                   !.returned = heap1,
                                   !.updated = with_update(current, kwargs)]
  /\ pc' = "updated"
  /\ UNCHANGED <<self, parser, tokenizer_called, history, id_in, id_out,
                 validate, threads, val_in, val_out, md>>
  /\ UNCHANGED callVars
  /\ UNCHANGED frontVars

\* metas.original.with_update(**changes), with custom=d added to the keyword
\* arguments when `given` is <<d>>, d a dict the caller has just made (it is
\* put at a new heap address). asdict(self) copies the fields and, for
\* custom, makes a new dict with the same items; update() then overwrites
\* the named fields and ChunkMetadata(**current) builds the new object.
WithUpdate(changes, given) ==
  /\ pc = "meta"
  /\ LET kwargs  == IF given = << >> THEN changes
                    ELSE [f \in DOMAIN changes \cup {"custom"} |->
                            IF f = "custom" THEN Len(heap) + 1 ELSE changes[f]]
         heap1   == heap \o given
         current == [metas.original EXCEPT !.custom = Len(heap1) + 1]
     IN  /\ heap' = Append(heap1, heap[metas.original.custom])
         /\ metas' = [metas EXCEPT !.changes = kwargs,
                                   !.returned = Append(heap1,
                                                  heap[metas.original.custom]),
                                   !.updated = with_update(current, kwargs)]
  /\ pc' = "updated"
  /\ UNCHANGED <<self, parser, tokenizer_called, history, id_in, id_out,
                 validate, threads, val_in, val_out, md>>
  /\ UNCHANGED callVars
  /\ UNCHANGED frontVars

\* After the call: metas[which].custom[key] = value, on the original or on
\* the updated object.
MutateCustom(which, key, value) ==
  /\ pc = "updated"
  /\ LET a == metas[which].custom
     IN  heap' = [heap EXCEPT ![a] =
                    [k \in DOMAIN heap[a] \cup {key} |->
                       IF k = key THEN value ELSE heap[a][k]]]
  /\ pc' = "mutated"
  /\ UNCHANGED <<self, parser, tokenizer_called, history, id_in, id_out,
                 validate, threads, val_in, val_out, metas, md>>
  /\ UNCHANGED callVars
  /\ UNCHANGED frontVars

NextMeta ==
  \/ \E changes \in {<< >>,
                     [chunk_index |-> 5],
                     [position |-> <<1, 2>>],
                     [source |-> "b.txt", total_chunks |-> 2],
                     [section_header |-> None, parent_chunk_id |-> "p"]},
        given \in {<< >>, <<[k \in {1} |-> 3]>>} :
       WithUpdate(changes, given)
  \/ \E which \in {"original", "updated"}, key \in 1..MaxCustomKeys :
       MutateCustom(which, key, 9)

SpecMeta == InitMeta /\ [][NextMeta]_vars

(***************************************************************************)
(* The helpers of TextChunker on given arguments                           *)
(***************************************************************************)

MaxFnSentences == 4
MaxFnOverlap == 5
MaxFnBlocks == 11

\* "A! "   "B e? "   "Cc d e? "
FnPieces ==
  { <<"A", "!", " ">>,
    <<"B", " ", "e", "?", " ">>,
    <<"C", "c", " ", "d", " ", "e", "?", " ">> }

\* "A! "   a fenced block   "__CODE_BLOCK_0__ "   a fenced block whose code
\* is the text "__CODE_BLOCK_0__"
FnCodePieces ==
  { <<"A", "!", " ">>,
    Fence \o <<"\n", "x", "\n">> \o Fence \o <<"\n">>,
    Placeholder(0) \o <<" ">>,
    Fence \o <<"\n">> \o Placeholder(0) \o <<"\n">> \o Fence \o <<"\n">> }

\* The arguments of one call: the chunker and
\*   _get_overlap_sentences: the sentences of up to MaxFnSentences FnPieces;
\*   _hard_split: the text of one or two FnPieces, trimmed as a sentence is;
\*   protect and restore: up to MaxPieces FnCodePieces, or MaxFnBlocks
\*   fenced blocks in a row;
\*   the sentences of chunk: up to MaxPieces FnCodePieces.
InitFn ==
  /\ parser = None
  /\ pc = "call"
  /\ NoCall
  /\ validate = FALSE
  /\ threads = << >>
  /\ heap = << >>
  /\ metas = << >>
  /\ md = << >>
  /\ id_in = << >>
  /\ id_out = << >>
  /\ val_out = << >>
  /\ \/ /\ self \in {TextChunker(MaxTokens, o, t, TRUE, None) :
                       o \in (0 - 1)..MaxFnOverlap,
                       t \in Tokenizers \cup {CharacterTokenizer(2, 1)}}
        /\ \E n \in 0..MaxFnSentences : \E t \in Concats(FnPieces, n) :
             val_in = [fn |-> "_get_overlap_sentences",
                       sentences |-> segment_sentences(t)]
     \/ /\ self \in {TextChunker(m, 0, t, TRUE, None) :
                       m \in 1..MaxTokens,
                       t \in Tokenizers \cup {CharacterTokenizer(2, 1)}}
        /\ \E n \in 1..2 : \E t \in Concats(FnPieces, n) :
             val_in = [fn |-> "_hard_split", text |-> Strip(t)]
     \/ /\ self = TextChunker(MaxTokens, 0, CharacterTokenizer(1, 1), TRUE, None)
        /\ \/ \E t \in UNION {Concats(FnCodePieces, n) : n \in 0..MaxPieces}
                         \cup Concats({Fence \o <<"\n">> \o Fence \o <<"\n">>},
                                      MaxFnBlocks) :
                val_in = [fn |-> "_protect_code_blocks", text |-> t]
           \/ \E t \in UNION {Concats(FnCodePieces, n) : n \in 0..MaxPieces} :
                val_in = [fn |-> "chunk", text |-> t]

\* The call returns `value` to its caller.
FnReturned(value) ==
  /\ val_out' = value
  /\ pc' = "called"
  /\ UNCHANGED <<self, parser, tokenizer_called, history, id_in, id_out,
                 validate, threads, val_in, heap, metas, md>>
  /\ UNCHANGED callVars
  /\ UNCHANGED frontVars

\* self._get_overlap_sentences(sentences)
CallGetOverlapSentences ==
  /\ pc = "call"
  /\ val_in.fn = "_get_overlap_sentences"
  /\ FnReturned(_get_overlap_sentences(self, val_in.sentences))

\* self._hard_split(text, self.max_tokens), with the slices of the encoded
\* text it decoded (the encoded text itself when it returns [text]).
CallHardSplit ==
  /\ pc = "call"
  /\ val_in.fn = "_hard_split"
  /\ LET tokens == encode(self.tokenizer, val_in.text)
     IN  FnReturned([runs      |-> IF Len(tokens) <= self.max_tokens
                                   THEN <<tokens>>
                                   ELSE HardSplitRuns(tokens, self.max_tokens),
                     fragments |-> _hard_split(self.tokenizer, val_in.text,
                                               self.max_tokens)])

\* self._protect_code_blocks(text), then self._restore_code_blocks on its
\* output.
CallProtectRestore ==
  /\ pc = "call"
  /\ val_in.fn = "_protect_code_blocks"
  /\ LET p == _protect_code_blocks(self.preserve_code_blocks, val_in.text)
     IN  FnReturned([protected    |-> p.text,
                     replacements |-> p.replacements,
                     restored     |-> _restore_code_blocks(p.text, p.replacements)])

\* Lines 275-291 of TextChunker.chunk(text): the sentences handed to
\* _group_sentences_into_chunks.
CallPrepareSentences ==
  /\ pc = "call"
  /\ val_in.fn = "chunk"
  /\ FnReturned([sentences |-> PreparedSentences(self, val_in.text)])

NextFn ==
  \/ CallGetOverlapSentences
  \/ CallHardSplit
  \/ CallProtectRestore
  \/ CallPrepareSentences

SpecFn == InitFn /\ [][NextFn]_vars

(***************************************************************************)
(* SemanticChunker.chunk on given texts and embeddings                     *)
(***************************************************************************)

MaxSemSentences == 3

\* The two-dimensional embeddings an embedding function returns here.
SemVectors == {<<1, 0>>, <<0, 1>>, <<1, 1>>, <<0, 0>>}

\* SemanticChunker(...) with similarity_threshold 0.5, and the arguments of
\* one chunk call: a text of up to MaxSemSentences sentences "A!" and "B e?"
\* and the list the embedding function returns for its sentences.
InitSem ==
  /\ self \in {SemanticChunker(<<1, 2>>, m, t, n, None) :
                 m \in {1, MaxTokens}, t \in {CharacterTokenizer(1, 1), WordTokenizer},
                 n \in 1..2}
  /\ parser = None
  /\ pc = "idle"
  /\ NoCall
  /\ validate = FALSE
  /\ threads = << >>
  /\ heap = << >>
  /\ metas = << >>
  /\ md = << >>
  /\ id_in = << >>
  /\ id_out = << >>
  /\ val_out = << >>
  /\ \E n \in 0..MaxSemSentences :
       \E t \in Concats({<<"A", "!", " ">>, <<"B", " ", "e", "?", " ">>}, n),
          e \in [1..n -> SemVectors] :
         val_in = [text |-> t, section_header |-> None, embeddings |-> e]

\* SemanticChunker.chunk(text, section_header) up to the loop over the
\* boundaries: a blank text returns [], a text of one sentence returns that
\* sentence as the only chunk, and otherwise the sentences are embedded and
\* the boundaries found.
CallSemanticChunk ==
  /\ pc = "idle"
  /\ LET sents == IF IsBlank(val_in.text) THEN << >>
                  ELSE segment_sentences(val_in.text)
     IN  /\ sentences' = sents
         /\ IF Len(sents) <= 1
            THEN /\ out' = IF sents = << >> THEN << >>
                           ELSE <<_create_chunk(self, sents,
                                                val_in.section_header, 0)>>
                 /\ val_out' = << >>
                 /\ pc' = "done"
            ELSE /\ out' = << >>
                 /\ val_out' =
                      find_semantic_boundaries(Len(sents), val_in.embeddings,
                                               self.similarity_threshold[1],
                                               self.similarity_threshold[2],
                                               self.min_sentences_per_chunk)
                 /\ pc' = "boundary"
  /\ doc' = val_in.text
  /\ text' = val_in.text
  /\ section_header' = val_in.section_header
  /\ idx' = 0
  /\ chunks' = << >>
  /\ UNCHANGED <<self, parser, elements, elem_idx, all_chunks, warned,
                 tokenizer_called, current_sentences, current_tokens, result,
                 emitted, history, id_in, id_out, validate, threads, val_in,
                 heap, metas, md>>

\* One iteration of "for boundary in boundaries": val_out holds the
\* boundaries and idx counts those already handled.
SemBoundary ==
  /\ pc = "boundary"
  /\ idx < Len(val_out)
  /\ LET start_idx == IF idx = 0 THEN 0 ELSE val_out[idx]
     IN  chunks' = SemanticGroup(self, chunks,
                                 Slice(sentences, start_idx, val_out[idx + 1]),
                                 section_header)
  /\ idx' = idx + 1
  /\ UNCHANGED <<self, parser, pc, doc, elements, elem_idx, all_chunks, warned,
                 tokenizer_called, text, section_header, sentences, out,
                 current_sentences, current_tokens, result, emitted, history,
                 id_in, id_out, validate, threads, val_in, val_out, heap,
                 metas, md>>

\* After the last boundary: the remaining sentences are chunked,
\* chunk_index and total_chunks are rewritten and the list is returned.
SemReturn ==
  /\ pc = "boundary"
  /\ idx = Len(val_out)
  /\ LET start_idx == IF idx = 0 THEN 0 ELSE val_out[idx]
         final     == IF start_idx < Len(sentences)
                      THEN SemanticGroup(self, chunks,
                             Slice(sentences, start_idx, Len(sentences)),
                             section_header)
                      ELSE chunks
     IN  /\ chunks' = final
         /\ out' = [i \in 1..Len(final) |->
                      Chunk(final[i].text,
                            with_update(final[i].metadata,
                                        [chunk_index  |-> i - 1,
                                         total_chunks |-> Len(final)]),
                            final[i].token_counts)]
  /\ pc' = "done"
  /\ UNCHANGED <<self, parser, doc, elements, elem_idx, all_chunks, warned,
                 tokenizer_called, text, section_header, sentences, idx,
                 current_sentences, current_tokens, result, emitted, history,
                 id_in, id_out, validate, threads, val_in, val_out, heap,
                 metas, md>>

NextSem ==
  \/ CallSemanticChunk
  \/ SemBoundary
  \/ SemReturn

SpecSem == InitSem /\ [][NextSem]_vars

(***************************************************************************)
(* MarkdownSection and MarkdownParser.parse (parsers/markdown.py)          *)
(***************************************************************************)

MaxMdLines == 3

\* A variant of update that also keeps the headers of the new header's level.
update_KeepsSameLevel(headers, level, header_text) ==
  Append(SelectSeq(headers, LAMBDA h : h[1] <= level), <<level, header_text>>)

\* MarkdownSection.update(level, text) on self.headers; the new list.
update(headers, level, header_text) ==
  Append(SelectSeq(headers, LAMBDA h : h[1] < level), <<level, header_text>>)

\* MarkdownSection.get_path()
get_path(headers) ==
  IF headers = << >> THEN None
  ELSE Join(<<" ", ">", " ">>, [k \in 1..Len(headers) |-> headers[k][2]])

\* End offset of the maximal run of characters of the set cs that starts at
\* offset i (a greedy "[cs]*").
RECURSIVE RunOf(_, _, _)
RunOf(s, i, cs) ==
  IF i < Len(s) /\ s[i + 1] \in cs THEN RunOf(s, i + 1, cs) ELSE i

\* Where the group "(.+)" starts when "\s+(.+)" is matched at offset m of a
\* line: after the whitespace, or at the last character when the rest of the
\* line is whitespace only.
AfterSpaces(line, m) ==
  IF SkipSpace(line, m) < Len(line) THEN SkipSpace(line, m) ELSE Len(line) - 1

\* HORIZONTAL_RULE.match(line):  ^(?:[-*_]){3,}\s*$
HORIZONTAL_RULE(line) ==
  LET k == RunOf(line, 0, {"-", "*", "_"})
  IN  k >= 3 /\ SkipSpace(line, k) = Len(line)

\* HEADER_PATTERN.match(line):  ^(#{1,6})\s+(.+?)(?:\s+#+)?$  The match as a
\* one-element list [level, text] (len(group(1)) and group(2).strip()), or
\* the empty list.  Group 2 is lazy: it is the shortest prefix of the body
\* after which the line ends or only "\s+#+" is left.
HEADER_PATTERN(line) ==
  LET h         == RunOf(line, 0, {"#"})
      body      == Slice(line, AfterSpaces(line, h), Len(line))
      closes(n) == LET r == Slice(body, n, Len(body))
                       a == SkipSpace(r, 0)
                   IN  \/ r = << >>
                       \/ a >= 1 /\ a < Len(r) /\ RunOf(r, a, {"#"}) = Len(r)
      n         == CHOOSE k \in 1..Len(body) :
                     closes(k) /\ \A j \in 1..(k - 1) : ~closes(j)
  IN  IF h \in 1..6 /\ IsSpace(At(line, h)) /\ Len(line) >= h + 2
      THEN <<[level |-> h, text |-> Strip(Slice(body, 0, n))]>>
      ELSE << >>

\* LIST_PATTERN.match(line):  ^(\s*)([-*+]|\d+\.)\s+(.+)$  The match as a
\* one-element list [indent, marker, content], or the empty list.
LIST_PATTERN(line) ==
  LET i == SkipSpace(line, 0)
      d == RunOf(line, i, DigitSet)
      m == IF At(line, i) \in {"-", "*", "+"} THEN i + 1
           ELSE IF d > i /\ At(line, d) = "." THEN d + 1
           ELSE -1
  IN  IF m # -1 /\ IsSpace(At(line, m)) /\ Len(line) >= m + 2
      THEN <<[indent  |-> i,
              marker  |-> Slice(line, i, m),
              content |-> Strip(Slice(line, AfterSpaces(line, m), Len(line)))]>>
      ELSE << >>

\* BLOCKQUOTE_PATTERN.match(line):  ^>\s+(.+)$  The stripped group 1 in a
\* one-element list, or the empty list.
BLOCKQUOTE_PATTERN(line) ==
  IF At(line, 0) = ">" /\ IsSpace(At(line, 1)) /\ Len(line) >= 3
  THEN <<Strip(Slice(line, AfterSpaces(line, 1), Len(line)))>>
  ELSE << >>

\* str.split("\n")
RECURSIVE SplitLines(_)
SplitLines(s) ==
  LET k == Find(s, <<"\n">>, 0)
  IN  IF k = -1 THEN <<s>>
      ELSE <<Slice(s, 0, k)>> \o SplitLines(Slice(s, k + 1, Len(s)))

\* MarkdownParser(preserve_code_blocks, extract_lists)
MarkdownParser(preserve_code_blocks, extract_lists) ==
  [preserve_code_blocks |-> preserve_code_blocks,
   extract_lists        |-> extract_lists]

\* DocumentElement(...) as MarkdownParser.parse builds it.
MarkdownElement(type, content, level, language, position, header, metadata) ==
  [type |-> type, content |-> content, level |-> level,
   language |-> language, position |-> position, section_header |-> header,
   metadata |-> metadata]

\* The first pass of parse: the "```" blocks of the text with their
\* placeholders f"__MARKDOWN_CODE_{i}__" and languages, in the order found.
\* The texts parsed here hold no "~~~", so the FENCED_CODE_ALT loop adds
\* nothing.
MarkdownCodeBlocks(t) ==
  LET blocks == _extract_code_blocks(t)
  IN  [k \in 1..Len(blocks) |->
         [placeholder |-> <<"_", "_", "M", "A", "R", "K", "D", "O", "W", "N",
                            "_", "C", "O", "D", "E", "_">>
                            \o IntStr(k - 1) \o <<"_", "_">>,
          full_match  |-> blocks[k].code,
          language    |-> Slice(t, blocks[k].start + 3,
                                RunEnd(t, blocks[k].start + 3, "word")),
          start       |-> blocks[k].start,
          end         |-> blocks[k].end]]

\* The replacement loop of parse, from the last block to the first.
MarkdownProtect(t, code_blocks) ==
  LET p[n \in 1..(Len(code_blocks) + 1)] ==
        IF n = Len(code_blocks) + 1 THEN t
        ELSE Slice(p[n + 1], 0, code_blocks[n].start)
               \o code_blocks[n].placeholder
               \o Slice(p[n + 1], code_blocks[n].end, Len(p[n + 1]))
  IN  p[1]

\* flush_paragraph() on the locals of parse; the locals after it.
flush_paragraph(m) ==
  LET para_text == Strip(Join(<<"\n">>, m.current_paragraph))
      hit       == {k \in 1..Len(m.code_blocks) :
                      m.code_blocks[k].placeholder = para_text}
      flushed   == [m EXCEPT !.current_paragraph = << >>]
  IN  IF m.current_paragraph = << >> THEN m
      ELSE IF para_text = << >> THEN flushed
      ELSE IF hit # {}
      THEN LET b          == m.code_blocks[CHOOSE k \in hit : TRUE]
               code_lines == SplitLines(b.full_match)
           IN  [flushed EXCEPT !.elements = Append(@,
                  MarkdownElement("code",
                    Join(<<"\n">>, SubSeq(code_lines, 2, Len(code_lines) - 1)),
                    None,
                    IF b.language = << >> THEN None ELSE b.language,
                    <<b.start, b.end>>, get_path(m.headers), << >>))]
      ELSE [flushed EXCEPT !.elements = Append(@,
              MarkdownElement("paragraph", para_text, None, None,
                <<m.current_para_start, m.position>>, get_path(m.headers),
                << >>))]

\* Which branch of the loop body of parse a line takes.
LineKind(p, line) ==
  IF HORIZONTAL_RULE(line) THEN "rule"
  ELSE IF HEADER_PATTERN(line) # << >> THEN "header"
  ELSE IF LIST_PATTERN(line) # << >> /\ p.extract_lists THEN "list_item"
  ELSE IF BLOCKQUOTE_PATTERN(line) # << >> THEN "blockquote"
  ELSE IF IsBlank(line) THEN "empty"
  ELSE "text"

\* The lines a Markdown text is put together from here:
\*   "# A"   "## B"   "### C ##"   "- x"   "> q"   "---"   ""   "t"
\* and a fenced block with a line "# A" inside.
MdLines ==
  { <<"#", " ", "A">>,
    <<"#", "#", " ", "B">>,
    <<"#", "#", "#", " ", "C", " ", "#", "#">>,
    <<"-", " ", "x">>,
    <<">", " ", "q">>,
    <<"-", "-", "-">>,
    << >>,
    <<"t">>,
    Fence \o <<"\n", "#", " ", "A", "\n">> \o Fence }

\* MarkdownParser(extract_lists=...) and the text of one parse call: up to
\* MaxMdLines of MdLines joined by newlines.
InitMd ==
  /\ self \in {MarkdownParser(TRUE, e) : e \in BOOLEAN}
  /\ parser = None
  /\ pc = "idle"
  /\ \E n \in 0..MaxMdLines :
       \E ls \in [1..n -> MdLines] : text = Join(<<"\n">>, ls)
  /\ doc = << >>
  /\ elements = << >>
  /\ elem_idx = 0
  /\ all_chunks = << >>
  /\ section_header = None
  /\ sentences = << >>
  /\ idx = 0
  /\ chunks = << >>
  /\ current_sentences = << >>
  /\ current_tokens = 0
  /\ result = << >>
  /\ out = << >>
  /\ warned = << >>
  /\ tokenizer_called = FALSE
  /\ emitted = << >>
  /\ history = << >>
  /\ id_in = << >>
  /\ id_out = << >>
  /\ NoSide

\* What a step of parse leaves alone.
MdUnchanged ==
  UNCHANGED <<self, parser, doc, elements, elem_idx, all_chunks, text,
              section_header, sentences, idx, chunks, current_sentences,
              current_tokens, result, out, tokenizer_called, emitted, history,
              id_in, id_out, validate, warned, threads, val_in, val_out, heap,
              metas>>

\* MarkdownParser.parse(text) up to the loop over the lines; a blank text
\* returns ParsedDocument(elements=[]) at once.
CallParse ==
  /\ pc = "idle"
  /\ LET code_blocks == MarkdownCodeBlocks(text)
         started == [elements          |-> << >>,
                     headers           |-> << >>,
                     title             |-> None,
                     code_blocks       |-> code_blocks,
                     lines             |-> SplitLines(MarkdownProtect(text, code_blocks)),
                     i                 |-> 0,
                     current_paragraph |-> << >>,
                     current_para_start |-> 0,
                     position          |-> 0]
     IN  IF IsBlank(text)
         THEN /\ md' = [started EXCEPT !.code_blocks = << >>, !.lines = << >>]
              /\ pc' = "parsed"
         ELSE /\ md' = started
              /\ pc' = "line"
  /\ MdUnchanged

\* The head of the loop body for the next line: line_start and position are
\* set, and the line is taken by the branch `kind`.
AtLine(kind) ==
  /\ pc = "line"
  /\ md.i < Len(md.lines)
  /\ LineKind(self, md.lines[md.i + 1]) = kind

\* The locals after "line_start = position; position += len(line) + 1".
Advanced ==
  [md EXCEPT !.i = @ + 1, !.position = @ + Len(md.lines[md.i + 1]) + 1]

\* A horizontal rule closes the paragraph.
LineHorizontalRule ==
  /\ AtLine("rule")
  /\ md' = flush_paragraph(Advanced)
  /\ pc' = "line"
  /\ MdUnchanged

\* A header closes the paragraph, updates the section and is appended with
\* the new path.
LineHeader ==
  /\ AtLine("header")
  /\ LET header_match == HEADER_PATTERN(md.lines[md.i + 1])[1]
         m       == flush_paragraph(Advanced)
         section == update(m.headers, header_match.level, header_match.text)
     IN  md' = [m EXCEPT
                  !.headers  = section,
                  !.title    = IF header_match.level = 1 /\ m.title = None
                               THEN header_match.text ELSE @,
                  !.elements = Append(@,
                    MarkdownElement("header", header_match.text,
                      header_match.level, None, <<md.position, m.position>>,
                      get_path(section), << >>))]
  /\ pc' = "line"
  /\ MdUnchanged

\* A list item closes the paragraph and is appended.
LineListItem ==
  /\ AtLine("list_item")
  /\ LET list_match == LIST_PATTERN(md.lines[md.i + 1])[1]
         m == flush_paragraph(Advanced)
     IN  md' = [m EXCEPT !.elements = Append(@,
                  MarkdownElement("list_item", list_match.content, None, None,
                    <<md.position, m.position>>, get_path(m.headers),
                    [indent |-> list_match.indent,
                     marker |-> list_match.marker]))]
  /\ pc' = "line"
  /\ MdUnchanged

\* A blockquote line closes the paragraph and is appended.
LineBlockquote ==
  /\ AtLine("blockquote")
  /\ LET m == flush_paragraph(Advanced)
     IN  md' = [m EXCEPT !.elements = Append(@,
                  MarkdownElement("blockquote",
                    BLOCKQUOTE_PATTERN(md.lines[md.i + 1])[1], None, None,
                    <<md.position, m.position>>, get_path(m.headers), << >>))]
  /\ pc' = "line"
  /\ MdUnchanged

\* An empty line closes the paragraph.
LineEmpty ==
  /\ AtLine("empty")
  /\ md' = [flush_paragraph(Advanced) EXCEPT
              !.current_para_start = Advanced.position]
  /\ pc' = "line"
  /\ MdUnchanged

\* Any other line goes to the current paragraph.
LineText ==
  /\ AtLine("text")
  /\ md' = [Advanced EXCEPT
              !.current_para_start =
                 IF md.current_paragraph = << >> THEN md.position ELSE @,
              !.current_paragraph = Append(@, md.lines[md.i + 1])]
  /\ pc' = "line"
  /\ MdUnchanged

\* After the last line: the last paragraph is flushed and the document
\* returned.
ParseReturn ==
  /\ pc = "line"
  /\ md.i = Len(md.lines)
  /\ md' = flush_paragraph(md)
  /\ pc' = "parsed"
  /\ MdUnchanged

NextMd ==
  \/ CallParse
  \/ LineHorizontalRule
  \/ LineHeader
  \/ LineListItem
  \/ LineBlockquote
  \/ LineEmpty
  \/ LineText
  \/ ParseReturn

SpecMd == InitMd /\ [][NextMd]_vars

(***************************************************************************)
(* Properties                                                              *)
(***************************************************************************)

\* C1: every chunk returned by TextChunker.chunk that was assembled from
\* whole sentences (not by hard split) counts at most max_tokens tokens on
\* its space-joined text, for every max_tokens >= 1 and overlap_tokens >= 0.
C1_SentenceChunksWithinBudget ==
  (pc = "returned" /\ self.max_tokens >= 1) =>
    \A i \in 1..Len(result) :
      ~emitted[i].hard =>
        count_tokens(self.tokenizer, result[i].text) <= self.max_tokens

\* C2: every chunk produced by hard-splitting an oversized sentence counts at
\* most max_tokens tokens, for every tokenizer, and an oversized sentence is
\* split into at least two chunks.
C2_HardSplitWithinBudget ==
  (pc = "returned" /\ self.max_tokens >= 1) =>
    \A i \in 1..Len(result) :
      emitted[i].hard =>
        /\ count_tokens(self.tokenizer, result[i].text) <= self.max_tokens
        /\ Cardinality({j \in 1..Len(result) :
                          /\ emitted[j].hard
                          /\ emitted[j].sentences = emitted[i].sentences}) >= 2

\* C3: with preserve_code_blocks, every fenced code block of the input
\* appears contiguously, fences included, inside a single returned chunk,
\* whatever its size relative to max_tokens.
C3_CodeBlocksAtomic ==
  (pc = "returned" /\ self.preserve_code_blocks /\ self.max_tokens >= 1) =>
    LET blocks == _extract_code_blocks(text)
    IN  \A b \in 1..Len(blocks) :
          \E i \in 1..Len(result) : Find(result[i].text, blocks[b].code, 0) # -1

C_Indexed(seq) ==
  \A i \in 1..Len(seq) :
    /\ seq[i].metadata.chunk_index = i - 1
    /\ seq[i].metadata.total_chunks = Len(seq)

\* C4: in every sequence returned by TextChunker.chunk or ChunkyMonkey.chunk,
\* with or without a parser, the chunk at list position i has chunk_index i
\* (0-based) and total_chunks equal to the length of the sequence.
C4_ChunkIndexAndTotal ==
  /\ pc = "returned" => C_Indexed(result)
  /\ pc = "done" => C_Indexed(out)

\* A parsed document of two elements has returned at least three chunks, the
\* last element having been hard split.
C4_Witness ==
  /\ pc = "done"
  /\ parser # None
  /\ Len(elements) = 2
  /\ Len(out) >= 3
  /\ \E i \in 1..Len(emitted) : emitted[i].hard

\* The calls completed so far, the one that has just returned included.
C_Calls ==
  IF pc = "done"
  THEN Append(history, [text |-> doc, self |-> self, out |-> out])
  ELSE history

\* C5: two TextChunker.chunk calls with the same text and the same
\* configuration, in any order and with other calls in between, return equal
\* sequences: same length, and pairwise the same text, chunk_id, metadata and
\* token_counts.
C5_Deterministic ==
  \A i \in 1..Len(C_Calls), j \in 1..Len(C_Calls) :
    (C_Calls[i].text = C_Calls[j].text /\ C_Calls[i].self = C_Calls[j].self)
      => C_Calls[i].out = C_Calls[j].out

\* The same text has just been chunked a second time under the same
\* configuration, into at least two chunks, a call on another text having
\* run in between.
C5_Witness ==
  /\ pc = "done"
  /\ Len(history) = 2
  /\ history[1].text = doc
  /\ history[1].self = self
  /\ history[2].text # doc
  /\ Len(out) >= 2

\* position_a == position_b for two Optional[tuple[int, int]] values.
C_SamePosition(p, q) ==
  IF p = None \/ q = None THEN p = None /\ q = None ELSE p = q

C_SameArgs(a, b) == a.text = b.text /\ C_SamePosition(a.position, b.position)

C_IdFromTextAndPosition(c) ==
  c.chunk_id = _generate_chunk_id(c.text, c.metadata.position)

C_SameIdentity(a, b) ==
  /\ a.chunk_id = b.chunk_id
  /\ a.text = b.text
  /\ a.token_counts = b.token_counts

\* C7: every returned chunk's chunk_id equals _generate_chunk_id(text,
\* position), and the finalization passes that rewrite chunk_index,
\* total_chunks and source leave each chunk's id, text and token_counts as
\* they were when the chunk was created.
C7_IdStableUnderFinalization ==
  /\ pc = "returned" =>
       /\ Len(result) = Len(chunks)
       /\ \A i \in 1..Len(result) :
            /\ C_IdFromTextAndPosition(result[i])
            /\ C_SameIdentity(result[i], chunks[i])
  /\ (pc = "done" /\ parser # None) =>
       /\ Len(out) = Len(all_chunks)
       /\ \A i \in 1..Len(out) :
            /\ C_IdFromTextAndPosition(out[i])
            /\ C_SameIdentity(out[i], all_chunks[i])
  /\ (pc = "done" /\ parser = None) => out = result

\* The parser path has returned a chunk whose chunk_index and total_chunks
\* were rewritten by the "Update indices" pass.
C7_Witness ==
  /\ pc = "done"
  /\ parser # None
  /\ \E i \in 1..Len(out) :
       /\ out[i].metadata.chunk_index # all_chunks[i].metadata.chunk_index
       /\ out[i].metadata.total_chunks # all_chunks[i].metadata.total_chunks

C_NonSpace(s) == SelectSeq(s, LAMBDA c : ~IsSpace(c))

\* C8: the sentences returned by segment_sentences tile the input: spans lie
\* in the input and are in increasing order without overlap, every
\* non-whitespace character lies in exactly one span, each sentence's text is
\* the trimmed input[start:end], and the sentence texts together hold the
\* input's non-whitespace characters, none lost or duplicated.
C8_SentencesTile ==
  pc = "segmented" =>
    LET n == Len(sentences)
    IN  /\ \A i \in 1..n :
             /\ 0 <= sentences[i].start
             /\ sentences[i].start < sentences[i].end
             /\ sentences[i].end <= Len(text)
             /\ sentences[i].text =
                  Strip(Slice(text, sentences[i].start, sentences[i].end))
        /\ \A i \in 1..(n - 1) : sentences[i].end <= sentences[i + 1].start
        /\ \A k \in 0..(Len(text) - 1) :
             ~IsSpace(At(text, k)) =>
               Cardinality({i \in 1..n : /\ sentences[i].start <= k
                                         /\ k < sentences[i].end}) = 1
        /\ C_NonSpace(Join(<< >>, [i \in 1..n |-> sentences[i].text]))
             = C_NonSpace(text)

\* A text with leading whitespace has been cut into at least two sentences.
C8_Witness ==
  /\ pc = "segmented"
  /\ Len(sentences) >= 2
  /\ sentences[1].start > 0

C10_BudgetRejectedAtConstruction ==
  /\ pc \in {"group", "raised"} => self.max_tokens >= 1
  /\ pc # "raised"
  /\ (pc = "done" /\ ~IsBlank(doc)) => out # << >>

\* C14: validate_token_limits(chunks, max_tokens, tokenizer) returns, in chunk
\* order, exactly one error for each chunk whose token count is above
\* max_tokens and none for the others; each error has severity "error", the
\* chunk_id of its chunk, and details.excess = count - max_tokens > 0.
C14_TokenLimitErrorsExact ==
  (pc = "validated" /\ val_in.fn = "validate_token_limits") =>
    LET cs    == val_in.chunks
        count == [i \in 1..Len(cs) |-> count_tokens(val_in.tokenizer, cs[i].text)]
        over  == SelectSeq([i \in 1..Len(cs) |-> i],
                           LAMBDA i : count[i] > val_in.max_tokens)
        errs  == val_out.result
    IN  /\ Len(errs) = Len(over)
        /\ \A k \in 1..Len(errs) :
             /\ errs[k].severity = "error"
             /\ errs[k].chunk_id = cs[over[k]].chunk_id
             /\ errs[k].details.excess = count[over[k]] - val_in.max_tokens
             /\ errs[k].details.excess > 0

\* Two chunks, the first at exactly max_tokens and the second over it: one
\* error, for the second.
C14_Witness ==
  /\ pc = "validated"
  /\ val_in.fn = "validate_token_limits"
  /\ Len(val_in.chunks) = 2
  /\ count_tokens(val_in.tokenizer, val_in.chunks[1].text) = val_in.max_tokens
  /\ count_tokens(val_in.tokenizer, val_in.chunks[2].text) > val_in.max_tokens
  /\ Len(val_out.result) = 1
  /\ val_out.result[1].chunk_id = val_in.chunks[2].chunk_id

\* C15: validate_roundtrip with an empty chunk sequence returns exactly one
\* violation when the original has a non-whitespace character and none when
\* the original is empty or whitespace only, in both modes.
C15_EmptyChunksRoundtrip ==
  (pc = "validated" /\ val_in.fn = "validate_roundtrip" /\ val_in.chunks = << >>) =>
    Len(val_out.result) =
      IF \E i \in 1..Len(val_in.original) : ~IsSpace(val_in.original[i])
      THEN 1 ELSE 0

\* No chunks for a whitespace-only original of two characters, strict mode:
\* no violation.
C15_Witness ==
  /\ pc = "validated"
  /\ val_in.fn = "validate_roundtrip"
  /\ val_in.chunks = << >>
  /\ ~val_in.overlap_aware
  /\ Len(val_in.original) = 2
  /\ \A i \in 1..2 : IsSpace(val_in.original[i])
  /\ val_out.result = << >>

C_IsPronounWarning(w) == "pronoun" \in DOMAIN w.details

\* C16: flag_dangling_references emits no warning for the chunk at index 0;
\* for each later chunk at most one pronoun-start warning and at most one
\* reference-phrase warning, that of the first pattern that matches, each
\* check firing whether or not the other does; the warnings are in chunk order
\* and carry the 0-based index of their chunk.
C16_DanglingWarnings ==
  (pc = "validated" /\ val_in.fn = "flag_dangling_references") =>
    LET cs == val_in.chunks
        ws == val_out.result
        of(i, pronoun) ==
          {k \in 1..Len(ws) : /\ ws[k].details.chunk_index = i
                              /\ C_IsPronounWarning(ws[k]) = pronoun}
        window(i) == Slice(Strip(cs[i + 1].text), 0, ReferenceWindow)
        hits(i) == {p \in 1..Len(REFERENCE_PATTERNS) :
                      PhraseSearch(window(i), REFERENCE_PATTERNS[p]) # << >>}
    IN  /\ \A k \in 1..Len(ws) :
             /\ ws[k].details.chunk_index \in 1..(Len(cs) - 1)
             /\ ws[k].chunk_id = cs[ws[k].details.chunk_index + 1].chunk_id
             /\ ws[k].severity = "warning"
        /\ \A k \in 1..(Len(ws) - 1) :
             \/ ws[k].details.chunk_index < ws[k + 1].details.chunk_index
             \/ /\ ws[k].details.chunk_index = ws[k + 1].details.chunk_index
                /\ C_IsPronounWarning(ws[k])
                /\ ~C_IsPronounWarning(ws[k + 1])
        /\ \A i \in 1..(Len(cs) - 1) :
             /\ Cardinality(of(i, TRUE)) <= 1
             /\ Cardinality(of(i, FALSE)) <= 1
             /\ (of(i, FALSE) # {}) = (hits(i) # {})
             /\ \A k \in of(i, FALSE) :
                  LET p == CHOOSE a \in hits(i) : \A b \in hits(i) : a <= b
                      m == PhraseSearch(window(i), REFERENCE_PATTERNS[p])
                  IN  /\ ws[k].details.phrase = m.phrase
                      /\ ws[k].details.position = m.start
             /\ (of(i, TRUE) # {}) =
                  (PronounWarnings(cs[i + 1], Strip(cs[i + 1].text), i) # << >>)

\* A second chunk that starts with a pronoun and holds a reference phrase
\* gets both warnings, the pronoun warning first.
C16_Witness ==
  /\ pc = "validated"
  /\ val_in.fn = "flag_dangling_references"
  /\ Len(val_in.chunks) = 2
  /\ Len(val_out.result) = 2
  /\ val_out.result[1].details.chunk_index = 1
  /\ val_out.result[2].details.chunk_index = 1
  /\ C_IsPronounWarning(val_out.result[1])
  /\ ~C_IsPronounWarning(val_out.result[2])

\* The chunks a complete call returns before validation.
C_Complete ==
  IF parser = None THEN result ELSE Reindexed(all_chunks, self.source)

\* C11: a chunk call in which a tokenizer call raises returns no chunk list,
\* partial or complete, and a call that returns has processed its whole
\* input, with every count taken from the tokenizer (no retry, no fallback
\* count).
C11_TokenizerFailureAllOrNothing ==
  /\ pc = "failed" => (out = << >> /\ warned = << >>)
  /\ pc = "done" =>
       /\ idx = Len(sentences)
       /\ elem_idx = Len(elements)
       /\ out = C_Complete
       /\ \A i \in 1..Len(out) :
            out[i].token_counts = TokenCounts(self.tokenizer, out[i].text)

\* The tokenizer raises after the call has already made a chunk and before
\* its last sentence is processed.
C11_Witness ==
  /\ pc = "failed"
  /\ chunks # << >>
  /\ idx < Len(sentences)
  /\ out = << >>

\* C13: ChunkyMonkey.chunk returns the same chunks with validate=True as
\* with validate=False, also when a chunk exceeds max_tokens; the violations
\* only reach warnings.warn, and validate_chunks on the returned chunks
\* returns its findings and leaves the chunks as they were.
C13_ValidationAdvisory ==
  /\ pc \in {"done", "validated"} =>
       /\ out = _validate_chunks(FALSE, self, C_Complete).chunks
       /\ warned # << >> => validate
       /\ validate =>
            Len(warned) = Cardinality({i \in 1..Len(out) :
                            count_tokens(self.tokenizer, out[i].text)
                              > self.max_tokens})
  /\ pc = "validated" =>
       /\ val_in.chunks = out
       /\ val_out.chunks = out
       /\ Len(val_out.result) = 2

\* A validating call that returned a chunk over max_tokens, which
\* validate_chunks then reports.
C13_Witness ==
  /\ pc = "validated"
  /\ validate
  /\ warned # << >>
  /\ out = C_Complete
  /\ val_out.result[1] # << >>
  /\ \E i \in 1..Len(out) :
       count_tokens(self.tokenizer, out[i].text) > self.max_tokens

\* TextChunker.chunk(text, section_header) run on its own: the grouping loop
\* from sentence i on, then the total_chunks pass.
RECURSIVE C_GroupFrom(_, _, _, _, _)
C_GroupFrom(chunker, sents, i, st, header) ==
  IF i > Len(sents) THEN FlushLast(chunker, st, header)
  ELSE C_GroupFrom(chunker, sents, i + 1,
                   IF IsOversized(chunker, sents[i])
                   THEN OversizedStep(chunker, st, sents[i], header)
                   ELSE IF ExceedsBudget(chunker, st, sents[i])
                   THEN EmitStep(chunker, st, sents[i], header)
                   ELSE AppendStep(chunker, st, sents[i]),
                   header)

C_ChunkAlone(chunker, t, header) ==
  IF IsBlank(t) THEN << >>
  ELSE FinalChunks(C_GroupFrom(chunker, PreparedSentences(chunker, t), 1,
                               [chunks |-> << >>, current_sentences |-> << >>,
                                current_tokens |-> 0],
                               header))

\* The per-element results of elements[1..n], one after the other.
RECURSIVE C_ElementChunks(_, _, _)
C_ElementChunks(chunker, els, n) ==
  IF n = 0 THEN << >>
  ELSE C_ElementChunks(chunker, els, n - 1)
         \o C_ChunkAlone(chunker, els[n].content, els[n].section_header)

\* C18: with a parser, each element's content is chunked on its own and the
\* results are concatenated in element order: a chunk holds sentences of one
\* element only, nothing is carried from one element into the next, and
\* every chunk, flushed chunks and hard-split fragments included, has the
\* section_header of its element.
C18_ElementsChunkedIndependently ==
  /\ (pc = "returned" /\ parser # None) =>
       LET element == elements[elem_idx + 1]
           own     == PreparedSentences(self, element.content)
       IN  /\ result = C_ChunkAlone(self, element.content, element.section_header)
           /\ \A i \in 1..Len(result) :
                result[i].metadata.section_header = element.section_header
           /\ \A k \in 1..Len(emitted) :
                \A j \in 1..Len(emitted[k].sentences) :
                  \E m \in 1..Len(own) : emitted[k].sentences[j] = own[m]
  /\ (pc = "elements" /\ parser # None) =>
       all_chunks = C_ElementChunks(self, elements, elem_idx)
  /\ (pc = "done" /\ parser # None) =>
       /\ Len(out) = Len(all_chunks)
       /\ \A i \in 1..Len(out) :
            /\ out[i].text = all_chunks[i].text
            /\ out[i].metadata.section_header
                 = all_chunks[i].metadata.section_header
            /\ out[i].metadata.position = all_chunks[i].metadata.position

\* Two elements under different section headers, chunked with overlap, the
\* second one holding an oversized sentence: the chunks of each element carry
\* its header.
C18_Witness ==
  /\ pc = "done"
  /\ parser # None
  /\ self.overlap_tokens > 0
  /\ Len(elements) = 2
  /\ elements[1].section_header = None
  /\ elements[2].section_header # None
  /\ \E k \in 1..Len(sentences) : IsOversized(self, sentences[k])
  /\ Len(out) > 2
  /\ out[1].metadata.section_header = None
  /\ out[Len(out)].metadata.section_header = elements[2].section_header

\* C12: calls that run concurrently on one TextChunker share no mutable
\* state: under every interleaving a finished call has returned the chunks
\* it returns when run alone, metadata.source included, so every chunk of a
\* chunk_file(p) call has source p.
C12_ConcurrentCallsIndependent ==
  \A t \in DOMAIN threads :
    threads[t].pc = "done" =>
      /\ threads[t].result =
           C_ChunkAlone([self EXCEPT !.source = threads[t].source],
                        threads[t].text, None)
      /\ \A i \in 1..Len(threads[t].result) :
           threads[t].result[i].metadata.source = threads[t].source

\* The fields of ChunkMetadata other than custom.
C_PlainFields ==
  {"source", "position", "section_header", "parent_chunk_id", "chunk_index",
   "total_chunks"}

\* C17: with_update(**changes) returns a new metadata object in which every
\* field named in changes has the given value and every other field equals
\* the original's (for custom: a mapping with the same items); the original
\* is unchanged by the call, and a later change to the custom mapping of one
\* of the two objects is not visible in the other.
C17_WithUpdateIndependent ==
  pc \in {"updated", "mutated"} =>
    LET original == metas.original
        updated  == metas.updated
        changes  == metas.changes
    IN  /\ \A f \in DOMAIN changes :
             updated[f] = changes[f]
        /\ \A f \in C_PlainFields \ DOMAIN changes :
             updated[f] = metas.before[f]
        /\ "custom" \notin DOMAIN changes =>
             metas.returned[updated.custom] = metas.before.custom
        /\ \A f \in C_PlainFields : original[f] = metas.before[f]
        /\ metas.returned[original.custom] = metas.before.custom
        /\ updated.custom # original.custom
        /\ pc = "mutated" =>
             \/ heap[original.custom] = metas.returned[original.custom]
             \/ heap[updated.custom] = metas.returned[updated.custom]

\* An update of two fields of a metadata whose custom mapping has an item,
\* followed by a change of the original's custom mapping: the new object
\* still has the items it was returned with.
C17_Witness ==
  /\ pc = "mutated"
  /\ DOMAIN metas.changes = {"source", "total_chunks"}
  /\ metas.updated.total_chunks = 2
  /\ metas.updated.position # None
  /\ DOMAIN metas.returned[metas.original.custom] # {}
  /\ heap[metas.original.custom] # metas.returned[metas.original.custom]
  /\ heap[metas.updated.custom] = metas.returned[metas.updated.custom]

\* The run of letters that ends just before offset k of s.
C_WordBefore(s, k) == Slice(s, WordStart(s, k), k)

\* C19: segment_sentences does not end a sentence at a "." that directly
\* follows a word of the abbreviation set, in any case; it does end one at a
\* ".", "!" or "?" that follows a word which is neither an abbreviation nor an
\* initial and is followed by whitespace and an uppercase letter; and
\* "Mr. Smith went home. He was tired." gives exactly the two sentences
\* "Mr. Smith went home." and "He was tired.".
C19_AbbreviationsDoNotEndSentences ==
  pc = "segmented" =>
    LET n    == Len(sentences)
        ends == {sentences[i].end : i \in 1..(n - 1)}
        word(k) == C_WordBefore(text, k)
        initial(k) ==
          /\ At(text, k) = "."
          /\ Len(word(k)) = 1
          /\ (k = 1 \/ IsSpace(At(text, k - 2)))
    IN  /\ \A k \in 0..(Len(text) - 1) :
             (At(text, k) = "." /\ Lower(word(k)) \in ABBREVIATIONS)
               => (k + 1) \notin ends
        /\ \A k \in 0..(Len(text) - 1) :
             ( /\ At(text, k) \in SENTENCE_ENDERS
               /\ word(k) # << >>
               /\ Lower(word(k)) \notin ABBREVIATIONS
               /\ ~initial(k)
               /\ RunEnd(text, k + 1, "space") > k + 1
               /\ IsUpper(At(text, RunEnd(text, k + 1, "space"))) )
               => (k + 1) \in ends
        /\ text = <<"M", "r", ".", " ", "S", "m", "i", "t", "h", " ", "w", "e",
                    "n", "t", " ", "h", "o", "m", "e", ".", " ", "H", "e", " ",
                    "w", "a", "s", " ", "t", "i", "r", "e", "d", ".">>
             => [i \in 1..n |-> sentences[i].text]
                  = <<Slice(text, 0, 20), Slice(text, 21, 34)>>

\* The example: two sentences, the first one holding "Mr." and ending at
\* "home.".
C19_Witness ==
  /\ pc = "segmented"
  /\ Len(text) = 34
  /\ Len(sentences) = 2
  /\ Lower(C_WordBefore(text, 2)) \in ABBREVIATIONS
  /\ sentences[1].end = 20
  /\ sentences[2].start = 21

\* The index in `sentences` of the sentence s.
C_IndexOf(s) == CHOOSE p \in 1..Len(sentences) : sentences[p] = s

\* C20: on a sentence with more tokens than max_tokens the assembler first
\* emits a non-empty accumulator as a normal chunk, then the hard-split
\* fragments of that sentence alone, in order, and goes on with an empty
\* accumulator: the chunk after the fragments starts with the next input
\* sentence and holds no sentence from before the oversized one, whatever
\* overlap_tokens is.
C20_OversizedSentenceAlone ==
  pc \in {"group", "finalize", "returned"} =>
    /\ Len(chunks) = Len(emitted)
    /\ (pc = "group" /\ idx > 0 /\ IsOversized(self, sentences[idx])) =>
         /\ current_sentences = << >>
         /\ current_tokens = 0
         /\ emitted # << >> => emitted[Len(emitted)].hard
    /\ \A k \in 1..Len(emitted) :
         LET s      == emitted[k].sentences[1]
             p      == C_IndexOf(s)
             pieces == _hard_split(self.tokenizer, s.text, self.max_tokens)
             first  == CHOOSE a \in 1..k :
                         /\ \A b \in a..k : emitted[b] = emitted[k]
                         /\ a = 1 \/ emitted[a - 1] # emitted[k]
         IN  IF emitted[k].hard
             THEN /\ IsOversized(self, s)
                  /\ k - first + 1 <= Len(pieces)
                  /\ chunks[k].text = pieces[k - first + 1]
                  /\ chunks[k].metadata.position = <<s.start, s.end>>
                  /\ \A q \in 1..(p - 1) :
                       \E a \in 1..(first - 1) :
                         \E j \in 1..Len(emitted[a].sentences) :
                           emitted[a].sentences[j] = sentences[q]
             ELSE /\ chunks[k].text =
                       Join(<<" ">>, [j \in 1..Len(emitted[k].sentences) |->
                                        emitted[k].sentences[j].text])
                  /\ (k > 1 /\ emitted[k - 1].hard) =>
                       s = sentences[C_IndexOf(emitted[k - 1].sentences[1]) + 1]
    /\ (current_sentences # << >> /\ emitted # << >>
          /\ emitted[Len(emitted)].hard) =>
         current_sentences[1].start >= emitted[Len(emitted)].sentences[1].end

\* A call with overlap in which a chunk was flushed before the fragments of an
\* oversized sentence and another chunk, made of the next sentence only,
\* follows them.
C20_Witness ==
  /\ pc = "returned"
  /\ self.overlap_tokens > 0
  /\ Len(emitted) = 4
  /\ ~emitted[1].hard
  /\ emitted[2].hard
  /\ emitted[3].hard
  /\ emitted[3] = emitted[2]
  /\ ~emitted[4].hard
  /\ emitted[1].sentences = <<sentences[1]>>
  /\ emitted[4].sentences = <<sentences[3]>>

\* C21: _get_overlap_sentences(emitted) returns a contiguous suffix of the
\* emitted list, in the original order, whose summed token count is at most
\* overlap_tokens and which is maximal (the whole list, or the sentence just
\* before the suffix would push the sum over overlap_tokens); it returns the
\* empty list when overlap_tokens <= 0, when the list is empty, or when the
\* last sentence alone exceeds overlap_tokens.
C21_OverlapIsMaximalSuffix ==
  (pc = "called" /\ val_in.fn = "_get_overlap_sentences") =>
    LET given == val_in.sentences
        n     == Len(given)
        k     == Len(val_out)
        total == SumTokens(self.tokenizer, val_out)
    IN  /\ k <= n
        /\ val_out = SubSeq(given, n - k + 1, n)
        /\ k > 0 => total <= self.overlap_tokens
        /\ \/ k = n
           \/ total + count_tokens(self.tokenizer, given[n - k].text)
                > self.overlap_tokens
        /\ ( \/ self.overlap_tokens <= 0
             \/ n = 0
             \/ count_tokens(self.tokenizer, given[n].text) > self.overlap_tokens )
           => val_out = << >>

\* The overlap returned is the last two of at least three sentences and
\* fills overlap_tokens exactly.
C21_Witness ==
  /\ pc = "called"
  /\ val_in.fn = "_get_overlap_sentences"
  /\ Len(val_in.sentences) >= 3
  /\ Len(val_out) = 2
  /\ SumTokens(self.tokenizer, val_out) = self.overlap_tokens

\* C24: with max_tokens >= 1, _hard_split slices encode(text) into contiguous
\* runs that, concatenated in order, equal encode(text); every run is
\* non-empty and has at most max_tokens units, all runs but the last exactly
\* max_tokens; the fragments are the decoded runs (the text itself when it is
\* not split), and for CharacterTokenizer the fragments concatenated in order
\* equal the text.
C24_HardSplitTilesTokens ==
  (pc = "called" /\ val_in.fn = "_hard_split") =>
    LET runs      == val_out.runs
        fragments == val_out.fragments
        n         == Len(runs)
    IN  /\ Join(<< >>, runs) = encode(self.tokenizer, val_in.text)
        /\ Len(fragments) = n
        /\ \A k \in 1..n :
             /\ Len(runs[k]) >= 1
             /\ Len(runs[k]) <= self.max_tokens
             /\ k < n => Len(runs[k]) = self.max_tokens
             /\ fragments[k] = IF n = 1 THEN val_in.text
                               ELSE decode(self.tokenizer, runs[k])
        /\ self.tokenizer.kind = "chars" =>
             /\ decode(self.tokenizer, encode(self.tokenizer, val_in.text))
                  = val_in.text
             /\ Join(<< >>, fragments) = val_in.text

\* A text has been split into at least three fragments, the last one shorter
\* than max_tokens.
C24_Witness ==
  /\ pc = "called"
  /\ val_in.fn = "_hard_split"
  /\ self.tokenizer.kind = "chars"
  /\ Len(val_out.fragments) >= 3
  /\ Len(val_out.runs[Len(val_out.runs)]) < self.max_tokens

\* C25: _restore_code_blocks applied to the output of _protect_code_blocks
\* returns the original text character for character, and the restored
\* sentences of chunk hold the original text's non-whitespace characters, for
\* any number of fenced blocks and also when the input or a code block
\* contains text equal to a placeholder.
C25_ProtectRestoreRoundTrip ==
  /\ (pc = "called" /\ val_in.fn = "_protect_code_blocks") =>
       val_out.restored = val_in.text
  /\ (pc = "called" /\ val_in.fn = "chunk") =>
       C_NonSpace(Join(<< >>, [i \in 1..Len(val_out.sentences) |->
                                 val_out.sentences[i].text]))
         = C_NonSpace(val_in.text)

\* C22: at every step of _group_sentences_into_chunks current_tokens equals
\* the sum of count_tokens over the sentences in the accumulator and is at
\* most max_tokens, also right after the accumulator was seeded with the
\* overlap window and the current sentence was appended, for every
\* overlap_tokens >= 0 (overlap_tokens >= max_tokens included).
C22_AccumulatorUnderBudget ==
  (pc = "group" /\ self.max_tokens >= 1) =>
    /\ current_tokens = SumTokens(self.tokenizer, current_sentences)
    /\ current_tokens <= self.max_tokens

\* C23: every chunk assembled from sentences has as text its sentences'
\* texts joined by single spaces, the sentences being consecutive input
\* sentences in input order, and position = (start of its first sentence,
\* end of its last sentence) with start <= end; when a chunk was seeded with
\* overlap its first sentence is the first overlap sentence of the chunk
\* before it, so the spans of the two chunks overlap.
C23_ChunkTextAndSpan ==
  (pc \in {"group", "finalize"} /\ self.max_tokens >= 1) =>
    /\ Len(chunks) = Len(emitted)
    /\ \A i \in 1..Len(chunks) :
         ~emitted[i].hard =>
           LET sents == emitted[i].sentences
               n     == Len(sents)
           IN  /\ n >= 1
               /\ \E a \in 1..Len(sentences) :
                    sents = SubSeq(sentences, a, a + n - 1)
               /\ chunks[i].text =
                    Join(<<" ">>, [k \in 1..n |-> sents[k].text])
               /\ chunks[i].metadata.position = <<sents[1].start, sents[n].end>>
               /\ sents[1].start <= sents[n].end
    /\ \A i \in 1..(Len(chunks) - 1) :
         LET overlap == _get_overlap_sentences(self, emitted[i].sentences)
         IN  (~emitted[i].hard /\ ~emitted[i + 1].hard /\ overlap # << >>) =>
               /\ emitted[i + 1].sentences[1] = overlap[1]
               /\ chunks[i + 1].metadata.position[1] = overlap[1].start
               /\ chunks[i + 1].metadata.position[1]
                    < chunks[i].metadata.position[2]

\* A chunk of two sentences has been closed and the next chunk, seeded with
\* its last sentence, has been closed after it.
C23_Witness ==
  /\ pc = "finalize"
  /\ \E i \in 1..(Len(chunks) - 1) :
       /\ ~emitted[i].hard
       /\ ~emitted[i + 1].hard
       /\ Len(emitted[i].sentences) = 2
       /\ Len(emitted[i + 1].sentences) = 2
       /\ emitted[i + 1].sentences[1] = emitted[i].sentences[2]

\* C26: for every chunk returned by TextChunker.chunk, metadata.position =
\* (start, end) are character offsets into the text passed to chunk, with
\* 0 <= start <= end <= len(text); the chunk's first contributing sentence
\* begins at start in that text and its last one ends at end (only
\* whitespace may lie between the last sentence and end), also when
\* preserve_code_blocks replaced fenced blocks by placeholders.
C26_PositionsInOriginalText ==
  (pc = "returned" /\ self.max_tokens >= 1) =>
    \A i \in 1..Len(result) :
      LET start == result[i].metadata.position[1]
          end   == result[i].metadata.position[2]
          sents == emitted[i].sentences
          first == sents[1].text
          last  == sents[Len(sents)].text
          span  == Strip(Slice(text, start, end))
      IN  /\ 0 <= start
          /\ start <= end
          /\ end <= Len(text)
          /\ Slice(text, start, start + Len(first)) = first
          /\ Slice(span, Len(span) - Len(last), Len(span)) = last

\* The sentences the chunks made so far were built from, in chunk order, the
\* fragments of one hard-split sentence counted once.
C_Contributing ==
  LET cov[i \in 0..Len(emitted)] ==
        IF i = 0 THEN << >>
        ELSE IF i > 1 /\ emitted[i].hard /\ emitted[i - 1] = emitted[i]
             THEN cov[i - 1]
             ELSE cov[i - 1] \o emitted[i].sentences
  IN  cov[Len(emitted)]

\* C29: no chunk is built from zero sentences; with overlap_tokens = 0 the
\* chunks partition the sentence sequence in order (an oversized sentence
\* making its own run of hard-split fragments) and a chunk of sentences is
\* closed only when the next sentence would push the summed sentence tokens
\* over max_tokens; with overlap_tokens > 0 every chunk of sentences still
\* contains a sentence that the chunk before it does not.
C29_ChunksPartitionSentences ==
  (pc \in {"finalize", "returned"} /\ self.max_tokens >= 1) =>
    /\ Len(chunks) = Len(emitted)
    /\ pc = "returned" => Len(result) = Len(emitted)
    /\ \A i \in 1..Len(emitted) :
         /\ emitted[i].sentences # << >>
         /\ emitted[i].hard => IsOversized(self, emitted[i].sentences[1])
         /\ ~emitted[i].hard =>
              \A k \in 1..Len(emitted[i].sentences) :
                ~IsOversized(self, emitted[i].sentences[k])
    /\ self.overlap_tokens = 0 =>
         /\ C_Contributing = sentences
         /\ \A i \in 1..(Len(emitted) - 1) :
              ~emitted[i].hard =>
                SumTokens(self.tokenizer, emitted[i].sentences)
                  + count_tokens(self.tokenizer, emitted[i + 1].sentences[1].text)
                  > self.max_tokens
    /\ \A i \in 2..Len(emitted) :
         ~emitted[i].hard =>
           \E k \in 1..Len(emitted[i].sentences) :
             emitted[i].sentences[k] \notin Range(emitted[i - 1].sentences)

\* Without overlap, four sentences have been packed two by two.
C29_Witness ==
  /\ pc = "returned"
  /\ self.overlap_tokens = 0
  /\ Len(sentences) = 4
  /\ Len(chunks) = 2
  /\ Len(emitted[1].sentences) = 2

C_DistinctIds(seq) ==
  \A i \in 1..Len(seq), j \in 1..Len(seq) :
    i # j => seq[i].chunk_id # seq[j].chunk_id

\* C30: within one sequence returned by TextChunker.chunk or
\* ChunkyMonkey.chunk the chunk_ids are pairwise distinct, also among the
\* hard-split fragments of one sentence and among the chunks of different
\* parsed elements.
C30_ChunkIdsDistinct ==
  /\ (pc = "returned" /\ self.max_tokens >= 1) => C_DistinctIds(result)
  /\ (pc = "done" /\ self.max_tokens >= 1) => C_DistinctIds(out)

\* C27: in SemanticChunker.chunk every sentence group whose joined text
\* exceeds max_tokens is re-split with the assembler's algorithm, the hard
\* split of a single oversized sentence included, so every returned chunk
\* counts at most max_tokens tokens.
C27_SemanticChunksWithinBudget ==
  pc = "done" =>
    \A i \in 1..Len(out) :
      count_tokens(self.tokenizer, out[i].text) <= self.max_tokens

\* C28: while MarkdownParser.parse runs and when it has returned, the header
\* stack of its MarkdownSection holds strictly increasing levels; it is what
\* the headers met so far leave when each header of level L removes every
\* stacked header of level >= L and is put after the kept ones, so its last
\* entry is the most recent header; and every element carries the ' > '-join
\* of the texts stacked when it was met (None before any header), a header
\* element's path ending with its own text.
C28_HeaderStackAndPaths ==
  pc \in {"line", "parsed"} =>
    LET n == Len(md.elements)
        stack[k \in 0..n] ==
          IF k = 0 THEN << >>
          ELSE IF md.elements[k].type # "header" THEN stack[k - 1]
          ELSE SelectSeq(stack[k - 1],
                         LAMBDA h : h[1] < md.elements[k].level)
                 \o <<<<md.elements[k].level, md.elements[k].content>>>>
        path(k) == Join(<<" ", ">", " ">>,
                        [j \in 1..Len(stack[k]) |-> stack[k][j][2]])
    IN  /\ md.headers = stack[n]
        /\ \A j \in 1..(Len(md.headers) - 1) :
             md.headers[j][1] < md.headers[j + 1][1]
        /\ \A k \in 1..n :
             LET e == md.elements[k]
             IN  /\ IF stack[k] = << >> THEN e.section_header = None
                    ELSE e.section_header # None /\ e.section_header = path(k)
                 /\ e.type = "header" =>
                      /\ stack[k][Len(stack[k])] = <<e.level, e.content>>
                      /\ Len(e.section_header) >= Len(e.content)
                      /\ Slice(e.section_header,
                               Len(e.section_header) - Len(e.content),
                               Len(e.section_header)) = e.content

\* A text of three headers "# A", "### C ##", "## B" has been parsed: the
\* last header removed "C" from the stack and kept "A", and its path is
\* "A > B".
C28_Witness ==
  /\ pc = "parsed"
  /\ Len(md.elements) = 3
  /\ \A k \in 1..3 : md.elements[k].type = "header"
  /\ md.elements[2].level > md.elements[3].level
  /\ md.elements[1].level < md.elements[3].level
  /\ Len(md.headers) = 2
  /\ md.elements[3].section_header = <<"A", " ", ">", " ", "B">>
====
